---- MODULE Spec2Model ----
(***************************************************************************)
(* A model of the timetable tools of vlak_plzen4_eu:                       *)
(*   - czptt2gtfs/czptt2gtfs.py: Calendar (bitmap -> active dates,         *)
(*     guess_weekdays, exceptions) and load_calendar (the registry that    *)
(*     shares one Calendar per set of active dates);                       *)
(*   - get_direct_connection_cli.py: match_departure_to_delay_records and  *)
(*     the text helpers it calls.                                          *)
(* Dates are proleptic Gregorian ordinals (datetime.date.toordinal), so    *)
(* adding a timedelta of n days is adding n.  Texts are sequences of code  *)
(* points.  An optional value (Python None or a value) is a sequence of    *)
(* length 0 or 1.                                                          *)
(***************************************************************************)
EXTENDS Integers, Sequences, FiniteSets, TLC

VARIABLES
    \* Calendar engine: one Calendar(cal_elem) and the calls on it
    cal_pc,         \* "idle" | "input" | "failed" | "built" | "guessed" | "done"
    cal_elem,       \* the PlannedCalendar element: bitmap, start text, end text
    cal,            \* result of Calendar(cal_elem)
    weekdays,       \* result of cal.guess_weekdays()
    regular_wd,     \* the argument of cal.exceptions(regular_wd)
    excs,           \* result of cal.exceptions(regular_wd)
    \* Calendar registry: a run of load_calendar calls on one calendars map
    reg_pc,         \* "idle" | "run"
    calendars,      \* the registry: frozenset of dates -> Calendar instance
    next_id,        \* number of Calendar objects constructed so far
    returned,       \* every <<dates produced by the call's bitmap, instance returned>>
    last_call,      \* the last load_calendar call: its element and its outcome
    \* Delay matching: one match_departure_to_delay_records call
    match_pc,       \* "idle" | "input" | "done"
    departure,      \* the departure record (the target)
    delay_records,  \* the pool of delay records (the candidates)
    decision,       \* the dict returned
    \* Route codes: the codes of a departure's label and of a record's label
    codes_pc,       \* "idle" | "input" | "done"
    labels,         \* [departure |-> route_short_name, record |-> route_text]
    codes,          \* [departure |-> its route codes, record |-> its route codes]
    \* Vote threshold: one choose_train_label call
    choose_pc,      \* "idle" | "input" | "done"
    cast,           \* the votes: a Counter, as <<label, count>> in insertion order
    chosen,         \* the dict returned
    \* Enrichment: match_merged_trips, then rewrite_trips_with_train_numbers
    enrich_pc,      \* "idle" | "input" | "indexed" | "matched" | "done"
    official,       \* the official feed: its trips, in the order of their edges
    merged,         \* the merged feed: its trips, in the order of trips.txt
    edge_index,     \* the official edge index: key -> Counter
    matched,        \* matched_labels: trip_id -> label
    ambiguous,      \* ambiguous_rows
    unmatched,      \* unmatched_rows
    written,        \* the trips written to the output trips.txt
    \* Conversion run: the loop of run_conversion over the XML files, which
    \* fills the registry (calendars, next_id) of the run
    run_pc,         \* "idle" | "running" | "routes" | "numbered" | "trips" |
                    \* "finished" | "aborted"
    xml_files,      \* the trip variants of the input directory, sorted
    file_no,        \* the file the loop is at (the one that raised, if aborted)
    trains,         \* file -> the train kept of it
    cals_for_core,  \* core id -> the dates its kept variants run on
    cal_ids,        \* calendar instance -> the id given to it (cal.id)
    routes_txt,     \* the rows of routes.txt
    trips_txt,      \* the rows of trips.txt
    calendar_txt,   \* the rows of calendar.txt
    \* Parallel constructions: load_calendar calls of several threads on one
    \* registry
    thread_pc,      \* thread -> "idle" | the line of load_calendar it is at | "done" | "raised"
    thread_elem,    \* thread -> its cal_elem
    thread_cal,     \* thread -> the Calendar it built (line 111)
    thread_ret,     \* thread -> the instance returned to it
    shared_map,     \* the calendars_map the threads share
    \* stop_times.txt: the loop over the trains and their stops
    st_pc,          \* "idle" | "loop" | "done"
    st_train,       \* number of trains of train_list taken so far
    st_stops,       \* train.stops of the train at hand: <<arr, dep>> of each stop
    st_idx,         \* position in train.stops of the next stop (from 1)
    time_state,     \* the dict handed to gtfs_time: last_time, jumped_midnight
    st_rows,        \* the rows written for the train at hand
    \* The page: the JavaScript of DEFAULT_TEMPLATE on the same departure
    page_pc,        \* "idle" | "input" | "loaded" | "matched"
    latestDelayRecords, \* the delay records after normalizeDelayRecord
    page_match,     \* result of matchDeparture(departure, latestDelayRecords)
    \* extract_and_merge_xml_archives: a base archive, then the updates
    merge_pc,       \* "idle" | "base" | "updates" | "returned" | "raised"
    script,         \* whose extract_and_merge_xml_archives runs: "download" | "enrich"
    source_by_file, \* output file name -> name of the archive it came from last
    overrides,      \* the override records, in the order they were appended
    base_extracted, \* what the extraction of the base archive returned
    updates_extracted, \* the sum of what the extractions of the updates returned
    updates_done,   \* number of update archives gone through
    merge_log       \* the dict returned

calVars == <<cal_pc, cal_elem, cal, weekdays, regular_wd, excs>>
regVars == <<reg_pc, calendars, next_id, returned, last_call>>
matchVars == <<match_pc, departure, delay_records, decision>>
codesVars == <<codes_pc, labels, codes>>
chooseVars == <<choose_pc, cast, chosen>>
enrichVars == <<enrich_pc, official, merged, edge_index, matched, ambiguous, unmatched, written>>
runVars == <<run_pc, xml_files, file_no, trains, cals_for_core,
            cal_ids, routes_txt, trips_txt, calendar_txt>>
threadVars == <<thread_pc, thread_elem, thread_cal, thread_ret, shared_map>>
stVars == <<st_pc, st_train, st_stops, st_idx, time_state, st_rows>>
pageVars == <<page_pc, latestDelayRecords, page_match>>
mergeVars == <<merge_pc, script, source_by_file, overrides, base_extracted, updates_extracted, updates_done, merge_log>>
vars == <<calVars, regVars, matchVars, codesVars, chooseVars, enrichVars, runVars, threadVars, stVars, pageVars, mergeVars>>

\* what the steps of one component leave alone
calOthers == <<regVars, matchVars, codesVars, chooseVars, enrichVars, runVars, threadVars, stVars, pageVars, mergeVars>>
regOthers == <<calVars, matchVars, codesVars, chooseVars, enrichVars, runVars, threadVars, stVars, pageVars, mergeVars>>
matchOthers == <<calVars, regVars, codesVars, chooseVars, enrichVars, runVars, threadVars, stVars, pageVars, mergeVars>>
codesOthers == <<calVars, regVars, matchVars, chooseVars, enrichVars, runVars, threadVars, stVars, pageVars, mergeVars>>
chooseOthers == <<calVars, regVars, matchVars, codesVars, enrichVars, runVars, threadVars, stVars, pageVars, mergeVars>>
enrichOthers == <<calVars, regVars, matchVars, codesVars, chooseVars, runVars, threadVars, stVars, pageVars, mergeVars>>
\* the run works on the registry: what it leaves alone of the others
runOthers == <<calVars, matchVars, codesVars, chooseVars, enrichVars, threadVars, stVars, pageVars, mergeVars>>
threadOthers == <<calVars, regVars, matchVars, codesVars, chooseVars, enrichVars, runVars, stVars, pageVars, mergeVars>>
stOthers == <<calVars, regVars, matchVars, codesVars, chooseVars, enrichVars, runVars, threadVars, pageVars, mergeVars>>
pageOthers == <<calVars, regVars, matchVars, codesVars, chooseVars, enrichVars, runVars, threadVars, stVars, mergeVars>>
mergeOthers == <<calVars, regVars, matchVars, codesVars, chooseVars, enrichVars, runVars, threadVars, stVars, pageVars>>

None == <<>>
Some(x) == <<x>>

-----------------------------------------------------------------------------
(* Bounds of the model                                                     *)

\* longest bitmap of the calendar engine's inputs (8 days: one weekday twice)
MaxLen == 8
\* length of the few long bitmaps tried (15 days: one weekday three times)
LongLen == 15
\* ordinal of the first start date tried, and how many consecutive ones
FirstDay == 1
NumStartDays == 2
\* an explicit EndDateTime is up to this many days after start + len - 1
MaxEndSkew == 1
\* load_calendar calls in one run of the registry
MaxCalls == 3
\* delay records in the pool of one match
MaxPool == 2
\* longest label of a departure whose route codes are extracted
MaxLabel == 4
\* most votes one label holds in a Counter handed to choose_train_label
MaxVotes == 5
\* most trips in the trips.txt of a merged feed
MaxTrips == 2
\* most XML files in the input directory of a conversion run
MaxFiles == 2
\* threads that call load_calendar on one registry
NumThreads == 2
\* most stops of one train written to stop_times.txt
MaxStops == 3
\* most members of one archive, and most update archives after the base
MaxMembers == 2
MaxUpdates == 2

-----------------------------------------------------------------------------
(* Program constants                                                       *)

EXC_ADD == 1
EXC_REMOVE == 2
DaysPerWeek == 7
\* minutes between two scheduled times that may still be the same train
TIME_WINDOW == 3
\* choose_train_label: fewer top votes than this is low support
MIN_TOP_VOTES == 2
\* choose_train_label: a share of the top label below 0.60 is a low ratio
RATIO_PERCENT == 60

-----------------------------------------------------------------------------
(* Inputs: the PlannedCalendar element                                     *)

\* A date-time text: well formed ("<date>T00:00:00") or not.
DateText(d) == [wf |-> TRUE, date |-> d]
Malformed == [wf |-> FALSE, date |-> 0]

StartDays == FirstDay .. (FirstDay + NumStartDays - 1)

RECURSIVE SeqsUpTo(_, _)
SeqsUpTo(S, n) ==
    IF n = 0 THEN {<<>>}
    ELSE LET shorter == SeqsUpTo(S, n - 1)
         IN  shorter \cup {Append(s, c) : s \in shorter, c \in S}

\* ValidityPeriod/EndDateTime: absent (None), malformed, or a date at or
\* after the one the bitmap implies.
EndTexts(start, n) ==
    {None, Some(Malformed)}
        \cup {Some(DateText(start + (n - 1) + k)) : k \in 0 .. MaxEndSkew}

CalElems(bitmaps, starts) ==
    {[bitmap |-> b, start |-> s, end |-> e] :
        <<b, s, e>> \in
            UNION {{<<b, DateText(d), e>> : e \in EndTexts(d, Len(b))}
                       : b \in bitmaps, d \in starts}
            \cup {<<b, Malformed, e>> : b \in bitmaps, e \in {None}}}

-----------------------------------------------------------------------------
(* class Calendar                                                          *)

\* datetime.date.weekday(): Monday is 0; ordinal 1 is a Monday.
Weekday(date) == (date + 6) % DaysPerWeek

Raise(what) == [raised |-> TRUE, err |-> what,
                start |-> 0, end |-> 0, dates |-> {}, bitmap |-> <<>>]

\* line 63: the explicit end must be start + (len(bitmap) - 1) days
EndMatchesAlways(start, bitmap, end) == TRUE
EndMatches(start, bitmap, end) == start + (Len(bitmap) - 1) = end

\* lines 66-69: the dates of the offsets (from 0) whose character is "1"
ActiveDatesFromOne(bitmap, start) ==
    {start + i : i \in {j \in 1 .. Len(bitmap) : bitmap[j] = "1"}}
ActiveDates(bitmap, start) ==
    {start + (i - 1) : i \in {j \in 1 .. Len(bitmap) : bitmap[j] = "1"}}

\* line 71 with the last offset counted once more
BuildCalendarEndAfter(bitmap, start) ==
    IF Len(bitmap) = 0
    THEN Raise("UnboundLocalError")
    ELSE [raised |-> FALSE, err |-> "",
          start |-> start,
          end |-> start + Len(bitmap),
          dates |-> ActiveDates(bitmap, start),
          bitmap |-> bitmap]

\* lines 66-73: the loop over the bitmap and the fields it sets.  With an
\* empty bitmap the loop never binds offset and line 71 raises.
BuildCalendar(bitmap, start) ==
    IF Len(bitmap) = 0
    THEN Raise("UnboundLocalError")
    ELSE [raised |-> FALSE, err |-> "",
          start |-> start,
          end |-> start + (Len(bitmap) - 1),
          dates |-> ActiveDates(bitmap, start),
          bitmap |-> bitmap]

\* Calendar.__init__
Calendar(elem) ==
    IF ~elem.start.wf
    THEN Raise("Exception")
    ELSE IF elem.bitmap # <<"1">>
    THEN IF elem.end = None
         THEN Raise("AttributeError")
         ELSE IF ~elem.end[1].wf
         THEN Raise("Exception")
         ELSE IF ~EndMatches(elem.start.date, elem.bitmap, elem.end[1].date)
         THEN Raise("Nesedi EndDateTime")
         ELSE BuildCalendar(elem.bitmap, elem.start.date)
    ELSE BuildCalendar(elem.bitmap, elem.start.date)

\* Calendar.service_interval: start, start + 1, ..., end
ServiceIntervalOpen(c) == [i \in 1 .. (c.end - c.start) |-> c.start + (i - 1)]
ServiceInterval(c) == [i \in 1 .. (c.end - c.start + 1) |-> c.start + (i - 1)]

\* lines 83-90: the two counters, one entry per weekday seen
RECURSIVE CountWeekdays(_, _, _)
CountWeekdays(c, interval, want_active) ==
    IF interval = <<>>
    THEN [wd \in {} |-> 0]
    ELSE LET rest == CountWeekdays(c, Tail(interval), want_active)
             date == Head(interval)
             active == date \in c.dates
             wd == Weekday(date)
         IN  IF active = want_active
             THEN [w \in DOMAIN rest \cup {wd} |->
                      (IF w \in DOMAIN rest THEN rest[w] ELSE 0)
                          + (IF w = wd THEN 1 ELSE 0)]
             ELSE rest

\* dict.get(wd, 0)
Get(dct, key) == IF key \in DOMAIN dct THEN dct[key] ELSE 0

\* line 91: the comparison that makes a weekday regular
IsRegularOrTie(n_active, n_inactive) == n_active >= n_inactive
IsRegular(n_active, n_inactive) == n_active > n_inactive

\* Calendar.guess_weekdays
GuessWeekdays(c) ==
    LET wd_active == CountWeekdays(c, ServiceInterval(c), TRUE)
        wd_inactive == CountWeekdays(c, ServiceInterval(c), FALSE)
    IN  {wd \in 0 .. (DaysPerWeek - 1) :
            IsRegular(Get(wd_active, wd), Get(wd_inactive, wd))}

\* line 102: the kind of an exception
ExceptionKindSwapped(active) == IF active THEN EXC_REMOVE ELSE EXC_ADD
ExceptionKind(active) == IF active THEN EXC_ADD ELSE EXC_REMOVE

RECURSIVE ExceptionsOver(_, _, _)
ExceptionsOver(c, wds, interval) ==
    IF interval = <<>>
    THEN <<>>
    ELSE LET date == Head(interval)
             active == date \in c.dates
             regular_active == Weekday(date) \in wds
         IN  (IF active # regular_active
              THEN << <<date, ExceptionKind(active)>> >>
              ELSE <<>>) \o ExceptionsOver(c, wds, Tail(interval))

\* Calendar.exceptions(regular_wd=None)
Exceptions(c, wds_arg) ==
    ExceptionsOver(c,
                   IF wds_arg = None THEN GuessWeekdays(c) ELSE wds_arg[1],
                   ServiceInterval(c))

-----------------------------------------------------------------------------
(* The calendar engine on one element                                      *)

\* The bitmaps of the registry's run: short ones, some sharing their dates
\* with another of a different length or start, some not made of 0 and 1.
RegBitmaps ==
    {<<>>, <<"1">>, <<"0">>, <<"1", "0">>, <<"0", "1">>, <<"1", "1">>,
     <<"1", "x">>}
\* bitmaps of LongLen days in which a weekday comes up to three times: the
\* first two weekdays of the period vary, every other day is inactive
VaryingDays ==
    {i \in {1, 2, 1 + DaysPerWeek, 2 + DaysPerWeek, 1 + 2 * DaysPerWeek} : i <= LongLen}
LongBitmaps ==
    {[i \in 1 .. LongLen |-> IF i \in on THEN "1" ELSE "0"] : on \in SUBSET VaryingDays}
\* every bitmap of 0 and 1 up to MaxLen days, the long ones, and the short
\* ones of the registry
Bitmaps == SeqsUpTo({"0", "1"}, MaxLen) \cup LongBitmaps \cup RegBitmaps
WeekdaySets == SUBSET (0 .. (DaysPerWeek - 1))

CalIdle ==
    /\ cal_pc = "idle"
    /\ cal_elem = [bitmap |-> <<>>, start |-> Malformed, end |-> None]
    /\ cal = Raise("")
    /\ weekdays = {}
    /\ regular_wd = None
    /\ excs = <<>>

InitCalendar ==
    /\ cal_pc = "input"
    /\ cal_elem \in CalElems(Bitmaps, StartDays)
    /\ cal = Raise("")
    /\ weekdays = {}
    /\ regular_wd = None
    /\ excs = <<>>

Construct ==
    /\ cal_pc = "input"
    /\ cal' = Calendar(cal_elem)
    /\ cal_pc' = IF cal'.raised THEN "failed" ELSE "built"
    /\ UNCHANGED <<cal_elem, weekdays, regular_wd, excs>>
    /\ UNCHANGED calOthers

CallGuessWeekdays ==
    /\ cal_pc = "built"
    /\ weekdays' = GuessWeekdays(cal)
    /\ cal_pc' = "guessed"
    /\ UNCHANGED <<cal_elem, cal, regular_wd, excs>>
    /\ UNCHANGED calOthers

CallExceptions ==
    /\ cal_pc = "guessed"
    /\ \E arg \in {None} \cup {Some(w) : w \in WeekdaySets} :
          /\ regular_wd' = arg
          /\ excs' = Exceptions(cal, arg)
    /\ cal_pc' = "done"
    /\ UNCHANGED <<cal_elem, cal, weekdays>>
    /\ UNCHANGED calOthers

-----------------------------------------------------------------------------
(* load_calendar and the registry                                          *)

\* line 112: has a calendar with this set of dates been seen?
NeverSeen(dates, calendars_map) == FALSE
Seen(dates, calendars_map) == dates \in DOMAIN calendars_map

\* load_calendar(cal_elem, calendars_map): the instance returned and the map
\* afterwards.  id is the identity of the instance (its allocation number).
LoadCalendar(elem, calendars_map, id) ==
    LET c == Calendar(elem)
    IN  IF c.raised
        THEN [raised |-> TRUE, ret |-> None, map |-> calendars_map]
        ELSE IF Seen(c.dates, calendars_map)
        THEN [raised |-> FALSE, ret |-> Some(calendars_map[c.dates]),
              map |-> calendars_map]
        ELSE LET inst == [id |-> id, start |-> c.start, end |-> c.end,
                          dates |-> c.dates, bitmap |-> c.bitmap]
             IN  [raised |-> FALSE, ret |-> Some(inst),
                  map |-> [k \in DOMAIN calendars_map \cup {c.dates} |->
                              IF k = c.dates THEN inst ELSE calendars_map[k]]]

RegElems ==
    {e \in CalElems(RegBitmaps, StartDays) :
        e.end = None \/ (e.end[1].wf /\ e.start.wf)}

NoCall == [elem |-> [bitmap |-> <<>>, start |-> Malformed, end |-> None],
           raised |-> TRUE, ret |-> None, made |-> {}]

RegIdle ==
    /\ reg_pc = "idle"
    /\ calendars = [k \in {} |-> 0]
    /\ next_id = 0
    /\ returned = {}
    /\ last_call = NoCall

\* run_conversion line 260: calendars = {}
InitRegistry ==
    /\ reg_pc = "run"
    /\ calendars = [k \in {} |-> 0]
    /\ next_id = 0
    /\ returned = {}
    /\ last_call = NoCall

\* Train.__init__ line 143: load_calendar(cal_elem, calendars_map=calendars)
CallLoadCalendar ==
    /\ reg_pc = "run"
    /\ next_id < MaxCalls
    /\ \E elem \in RegElems :
          LET r == LoadCalendar(elem, calendars, next_id)
              made == IF r.raised THEN {} ELSE {Calendar(elem).dates}
          IN  /\ calendars' = r.map
              /\ returned' = returned \cup {<<d, r.ret[1]>> : d \in made}
              /\ last_call' = [elem |-> elem, raised |-> r.raised,
                               ret |-> r.ret, made |-> made]
    /\ next_id' = next_id + 1
    /\ UNCHANGED reg_pc
    /\ UNCHANGED regOthers

-----------------------------------------------------------------------------
(* Texts: a Python str is the sequence of its code points (ord).           *)
(*   48..57 "0".."9"   65..90 "A".."Z"   97..122 "a".."z"   32 " "         *)
(*   47 "/"   58 ":"   95 "_"   344, 345 R and r with caron   780 the      *)
(*   combining caron   322 l with stroke (a letter that NFKD leaves as it   *)
(*   is)                                                                   *)

IsUpper(ch) == ch \in 65 .. 90
IsLower(ch) == ch \in 97 .. 122
\* [A-Za-z]
IsAsciiLetter(ch) == IsUpper(ch) \/ IsLower(ch)
\* [0-9], str.isdigit
IsDigit(ch) == ch \in 48 .. 57
\* \s, and what str.strip removes
IsSpace(ch) == ch \in {9, 10, 11, 12, 13, 32}
\* str.isalpha
IsAlpha(ch) == IsAsciiLetter(ch) \/ ch \in {322, 344, 345}
\* \w
IsWordChar(ch) == IsAlpha(ch) \/ IsDigit(ch) \/ ch = 95
\* unicodedata.combining(ch) # 0
IsCombining(ch) == ch = 780
\* [a-z0-9]
IsCodeChar(ch) == IsLower(ch) \/ IsDigit(ch)

\* int() of a run of digits: the value of its first n digits
RECURSIVE ToIntUpTo(_, _)
ToIntUpTo(digits, n) ==
    IF n = 0 THEN 0 ELSE 10 * ToIntUpTo(digits, n - 1) + (digits[n] - 48)
ToInt(digits) == ToIntUpTo(digits, Len(digits))

\* unicodedata.normalize("NFKD", ch) of one code point
Decompose(ch) ==
    IF ch = 345 THEN <<114, 780>>
    ELSE IF ch = 344 THEN <<82, 780>>
    ELSE <<ch>>

RECURSIVE NFKD(_)
NFKD(text) == IF text = <<>> THEN <<>> ELSE Decompose(Head(text)) \o NFKD(Tail(text))

\* str.lower
LowerChar(ch) == IF IsUpper(ch) THEN ch + 32 ELSE IF ch = 344 THEN 345 ELSE ch
Lower(text) == [i \in DOMAIN text |-> LowerChar(text[i])]

\* str.strip: from the first to the last character that is no space
StripTo(text, kept) ==
    IF kept = {} THEN <<>>
    ELSE SubSeq(text,
                CHOOSE i \in kept : \A j \in kept : i <= j,
                CHOOSE i \in kept : \A j \in kept : i >= j)
Strip(text) == StripTo(text, {i \in DOMAIN text : ~IsSpace(text[i])})

\* value or "": None and the empty text are false
OrEmpty(value) == IF value = None THEN <<>> ELSE value[1]
Truthy(value) == value # None /\ value[1] # <<>>

\* normalize_for_matching
NormalizeForMatching(value) ==
    Strip(Lower(SelectSeq(NFKD(OrEmpty(value)), LAMBDA ch : ~IsCombining(ch))))

\* \b before position p (1 .. Len + 1) of text
WordAt(text, p) == p >= 1 /\ p <= Len(text) /\ IsWordChar(text[p])
Boundary(text, p) == WordAt(text, p - 1) # WordAt(text, p)

\* the length of the longest run of letters, spaces or digits from position p
RECURSIVE LetterRun(_, _)
LetterRun(text, p) ==
    IF p <= Len(text) /\ IsAsciiLetter(text[p]) THEN 1 + LetterRun(text, p + 1) ELSE 0
RECURSIVE SpaceRun(_, _)
SpaceRun(text, p) ==
    IF p <= Len(text) /\ IsSpace(text[p]) THEN 1 + SpaceRun(text, p + 1) ELSE 0
RECURSIVE DigitRun(_, _)
DigitRun(text, p) ==
    IF p <= Len(text) /\ IsDigit(text[p]) THEN 1 + DigitRun(text, p + 1) ELSE 0
RECURSIVE CodeRun(_, _)
CodeRun(text, p) ==
    IF p <= Len(text) /\ IsCodeChar(text[p]) THEN 1 + CodeRun(text, p + 1) ELSE 0

\* the least number of a non-empty set of positions
First(positions) == CHOOSE p \in positions : \A q \in positions : p <= q

\* extract_hhmm: re.search(r"\b([0-2]?\d:[0-5]\d)\b", str(value)); the match
\* at position p with (n = 1) or without (n = 0) the optional first digit
HhmmAt(text, p, n) ==
    /\ p + n + 3 <= Len(text)
    /\ Boundary(text, p)
    /\ n = 1 => text[p] \in 48 .. 50
    /\ IsDigit(text[p + n])
    /\ text[p + n + 1] = 58
    /\ text[p + n + 2] \in 48 .. 53
    /\ IsDigit(text[p + n + 3])
    /\ Boundary(text, p + n + 4)

\* the leftmost match, the optional digit taken when it can be
HhmmIn(text, matches) ==
    IF matches = {} THEN None
    ELSE Some(SubSeq(text, First({m[1] : m \in matches}),
                     First({m[1] : m \in matches}) + 3
                         + (IF <<First({m[1] : m \in matches}), 1>> \in matches
                            THEN 1 ELSE 0)))

ExtractHhmm(value) ==
    IF value = None THEN None
    ELSE HhmmIn(value[1],
                {m \in (1 .. Len(value[1])) \X {0, 1} : HhmmAt(value[1], m[1], m[2])})

\* hhmm_to_minutes, lines 783-786: hhmm is h:mm or hh:mm
MinutesOf(hhmm) ==
    IF hhmm = None THEN None
    ELSE Some(ToInt(SubSeq(hhmm[1], 1, Len(hhmm[1]) - 3)) * 60
                  + ToInt(SubSeq(hhmm[1], Len(hhmm[1]) - 1, Len(hhmm[1]))))
HhmmToMinutes(value) == MinutesOf(ExtractHhmm(value))

\* is_route_code_token
IsRouteCodeTokenAnyLength(token) ==
    /\ \A i \in DOMAIN token : IsCodeChar(token[i])
    /\ \E i \in DOMAIN token : IsAlpha(token[i])
    /\ \E i \in DOMAIN token : IsDigit(token[i])
IsRouteCodeToken(token) ==
    /\ Len(token) >= 2 /\ Len(token) <= 8
    /\ \A i \in DOMAIN token : IsCodeChar(token[i])
    /\ \E i \in DOMAIN token : IsAlpha(token[i])
    /\ \E i \in DOMAIN token : IsDigit(token[i])

\* re.split(r"[^a-z0-9]+", text): the maximal runs of a-z0-9, empty ones dropped
SplitTokens(text) ==
    {SubSeq(text, p, p + CodeRun(text, p) - 1) :
        p \in {q \in 1 .. Len(text) :
                  IsCodeChar(text[q]) /\ (q = 1 \/ ~IsCodeChar(text[q - 1]))}}

\* extract_route_codes
ExtractRouteCodes(value) ==
    {token \in SplitTokens(NormalizeForMatching(value)) : IsRouteCodeToken(token)}

\* parse_train_identity: re.search(r"\b([A-Za-z]{1,6})\s*([0-9]{1,6})\b", ...).
\* At a position the greedy match is forced: the whole run of letters, the
\* whole run of spaces, the whole run of digits; any shorter choice leaves a
\* letter, a space or a digit where the pattern needs something else.
IdentitySpan(text, p, letters, spaces, digits) ==
    /\ Boundary(text, p)
    /\ letters >= 1 /\ letters <= 6
    /\ digits >= 1 /\ digits <= 6
    /\ Boundary(text, p + letters + spaces + digits)
IdentityAfterSpaces(text, p, letters, spaces) ==
    IdentitySpan(text, p, letters, spaces, DigitRun(text, p + letters + spaces))
IdentityAfterLetters(text, p, letters) ==
    IdentityAfterSpaces(text, p, letters, SpaceRun(text, p + letters))
IdentityAt(text, p) == IdentityAfterLetters(text, p, LetterRun(text, p))

NoIdentity == [category |-> None, number |-> None]

\* the groups of the match at position p
IdentityGroups(text, p, letters, number_at) ==
    [category |-> Some(SubSeq(text, p, p + letters - 1)),
     number |-> Some(ToInt(SubSeq(text, number_at,
                                  number_at + DigitRun(text, number_at) - 1)))]
IdentityFrom(text, p, letters) ==
    IdentityGroups(text, p, letters, p + letters + SpaceRun(text, p + letters))
IdentityIn(text, starts) ==
    IF starts = {} THEN NoIdentity
    ELSE IdentityFrom(text, First(starts), LetterRun(text, First(starts)))

ParseTrainIdentity(value) ==
    IF value = None THEN NoIdentity
    ELSE IdentityIn(value[1], {p \in 1 .. Len(value[1]) : IdentityAt(value[1], p)})

-----------------------------------------------------------------------------
(* match_departure_to_delay_records                                        *)

\* a or b
Or(a, b) == IF Truthy(a) THEN a ELSE b

\* abs(record_minutes - dep_minutes)
Abs(n) == IF n < 0 THEN -n ELSE n

\* lines 844 and 862: the time window of a candidate
WithinWindowStrict(record_minutes, dep_minutes) ==
    Abs(record_minutes - dep_minutes) < TIME_WINDOW
WithinWindow(record_minutes, dep_minutes) ==
    Abs(record_minutes - dep_minutes) <= TIME_WINDOW

Unknown == [status |-> "unknown", confidence |-> "none",
            match_reason |-> "none", record |-> None]

\* record.get("status", "unknown")
StatusOf(record) == IF record.status = None THEN "unknown" ELSE record.status[1]

\* every match reported as one by train number
MatchedByTrainNumber(record, confidence, reason) ==
    [status |-> StatusOf(record), confidence |-> confidence,
     match_reason |-> "train_number", record |-> Some(record)]

Matched(record, confidence, reason) ==
    [status |-> StatusOf(record), confidence |-> confidence,
     match_reason |-> reason, record |-> Some(record)]

\* lines 808-814: what the record lacks is taken from its route_short_name
WithoutParsedIdentity(dep, parsed) ==
    [category |-> dep.train_category, number |-> dep.train_number]
WithParsedIdentity(dep, parsed) ==
    [category |-> IF dep.train_category = None
                  THEN parsed.category ELSE dep.train_category,
     number |-> IF dep.train_number = None
                THEN parsed.number ELSE dep.train_number]
DepIdentity(dep) == WithParsedIdentity(dep, ParseTrainIdentity(dep.route_short_name))

\* line 816
CategoryNorm(dep_train_category) ==
    IF Truthy(dep_train_category)
    THEN Some(NormalizeForMatching(dep_train_category))
    ELSE None

\* lines 820-829: does the record enter strict_candidates?
IsStrictCandidateAnyCategory(record, dep_train_number, dep_train_category_norm) ==
    /\ dep_train_number # None
    /\ record.train_number # None
    /\ record.train_number[1] = dep_train_number[1]
IsStrictCandidate(record, dep_train_number, dep_train_category_norm) ==
    /\ dep_train_number # None
    /\ record.train_number # None
    /\ record.train_number[1] = dep_train_number[1]
    /\ (Truthy(dep_train_category_norm) /\ Truthy(record.train_category))
          => NormalizeForMatching(record.train_category)
                 = dep_train_category_norm[1]

\* lines 817-829
SelectStrict(records, dep_train_number, dep_train_category_norm) ==
    SelectSeq(records,
              LAMBDA r : IsStrictCandidate(r, dep_train_number, dep_train_category_norm))
StrictCandidatesOf(records, identity) ==
    SelectStrict(records, identity.number, CategoryNorm(identity.category))
StrictCandidates(dep, records) == StrictCandidatesOf(records, DepIdentity(dep))

\* lines 841 and 861
RecordMinutes(record) ==
    HhmmToMinutes(Or(record.scheduled_time_hhmm, record.scheduled_actual_time))

\* lines 842-845 and 862
InWindow(record_minutes, dep_minutes) ==
    record_minutes # None /\ WithinWindow(record_minutes[1], dep_minutes)
IsTimeFiltered(record, dep_minutes) == InWindow(RecordMinutes(record), dep_minutes)

\* lines 861-867
IsRouteCodeCandidateAnyTime(record, dep_minutes, dep_route_codes) ==
    dep_route_codes \cap ExtractRouteCodes(Or(record.route_text, record.route)) # {}
IsRouteCodeCandidate(record, dep_minutes, dep_route_codes) ==
    /\ IsTimeFiltered(record, dep_minutes)
    /\ dep_route_codes \cap ExtractRouteCodes(Or(record.route_text, record.route)) # {}

\* one candidate left, or none to tell apart
FirstOfAny(candidates, confidence, reason) ==
    IF Len(candidates) >= 1 THEN Matched(candidates[1], confidence, reason) ELSE Unknown
OnlyOne(candidates, confidence, reason) ==
    IF Len(candidates) = 1 THEN Matched(candidates[1], confidence, reason) ELSE Unknown

\* lines 838-853: two or more strict candidates
FirstStrictWins(strict_candidates, dep_minutes) ==
    Matched(strict_candidates[1], "high", "train_number")
ResolveStrictTie(strict_candidates, dep_minutes) ==
    OnlyOne(SelectSeq(strict_candidates, LAMBDA r : IsTimeFiltered(r, dep_minutes)),
            "high", "train_number")

\* lines 855-880: the route-code fallback
RouteCodeCandidates(records, dep_minutes, dep_route_codes) ==
    SelectSeq(records, LAMBDA r : IsRouteCodeCandidate(r, dep_minutes, dep_route_codes))
RouteCodeMatch(records, dep_minutes, dep_route_codes) ==
    IF dep_route_codes = {} THEN Unknown
    ELSE OnlyOne(RouteCodeCandidates(records, dep_minutes, dep_route_codes),
                 "medium", "route_code")
RouteCodeFallback(dep, records, dep_minutes) ==
    RouteCodeMatch(records, dep_minutes, ExtractRouteCodes(dep.route_short_name))

\* lines 831-880: the decision from the strict candidates
DecideNearOnly(dep, records, dep_minutes, strict_candidates) ==
    IF Len(strict_candidates) >= 1
    THEN ResolveStrictTie(strict_candidates, dep_minutes)
    ELSE RouteCodeFallback(dep, records, dep_minutes)
Decide(dep, records, dep_minutes, strict_candidates) ==
    IF Len(strict_candidates) = 1
    THEN Matched(strict_candidates[1], "high", "train_number")
    ELSE IF Len(strict_candidates) > 1
    THEN ResolveStrictTie(strict_candidates, dep_minutes)
    ELSE RouteCodeFallback(dep, records, dep_minutes)

\* lines 804-806, then the rest
MatchAt(dep, records, dep_minutes) ==
    IF dep_minutes = None THEN Unknown
    ELSE Decide(dep, records, dep_minutes[1], StrictCandidates(dep, records))

MatchDepartureToDelayRecords(dep, records) ==
    MatchAt(dep, records, HhmmToMinutes(dep.departure_time))

-----------------------------------------------------------------------------
(* Inputs of the matcher                                                   *)

T_1011 == <<49, 48, 58, 49, 49, 58, 48, 48>>        \* "10:11:00"
T_1016 == <<49, 48, 58, 49, 54, 58, 48, 48>>        \* "10:16:00"
T_1014 == <<49, 48, 58, 49, 52>>                    \* "10:14"
T_1018 == <<49, 48, 58, 49, 56>>                    \* "10:18"
L_P2_S70 == <<80, 50, 47, 83, 55, 48>>              \* "P2/S70"
L_Os_12 == <<79, 115, 32, 49, 50>>                  \* "Os 12"
L_P2_Plzen == <<80, 50, 32, 80, 108, 122>>          \* "P2 Plz"
L_XP20 == <<88, 80, 50, 48, 32, 75, 108>>           \* "XP20 Kl"
C_Os == <<79, 115>>                                 \* "Os"
C_OS == <<79, 83, 32>>                              \* "OS "
C_R == <<82>>                                       \* "R"

Departures ==
    [departure_time : {None, Some(T_1011), Some(T_1016)},
     train_number : {None, Some(12)},
     train_category : {None, Some(C_Os)},
     route_short_name : {None, Some(L_P2_S70), Some(L_Os_12)}]

\* the identity of a record: a record without a number has no category
RecordIdentities ==
    {<<None, None>>, <<Some(12), None>>, <<Some(12), Some(C_OS)>>, <<Some(12), Some(C_R)>>}
\* the time of a record: in scheduled_time_hhmm, in scheduled_actual_time, nowhere
RecordTimes == {<<Some(T_1014), None>>, <<None, Some(T_1018)>>, <<None, None>>}
\* the line of a record and its status: the line in route_text or in route
RecordLines ==
    {<<Some(L_P2_Plzen), None, Some("on_time")>>,
     <<Some(<<>>), Some(L_XP20), Some("delayed")>>}

\* the records scraped: the train of another category comes at one time only
DelayRecords ==
    {[train_number |-> id[1], train_category |-> id[2],
      scheduled_time_hhmm |-> t[1], scheduled_actual_time |-> t[2],
      route_text |-> r[1], route |-> r[2], status |-> r[3]] :
        id \in RecordIdentities, t \in RecordTimes, r \in RecordLines}
    \ {rec \in [train_number : {Some(12)}, train_category : {Some(C_R)},
                scheduled_time_hhmm : {None}, scheduled_actual_time : {None, Some(T_1018)},
                route_text : {Some(L_P2_Plzen), Some(<<>>)},
                route : {None, Some(L_XP20)},
                status : {Some("on_time"), Some("delayed")}] : TRUE}

MatchIdle ==
    /\ match_pc = "idle"
    /\ departure = [departure_time |-> None, train_number |-> None,
                    train_category |-> None, route_short_name |-> None]
    /\ delay_records = <<>>
    /\ decision = Unknown

InitMatch ==
    /\ match_pc = "input"
    /\ departure \in Departures
    /\ delay_records = <<>>
    /\ decision = Unknown

\* one more delay record scraped into the pool before the match
AddDelayRecord ==
    /\ match_pc = "input"
    /\ Len(delay_records) < MaxPool
    /\ \E record \in DelayRecords : delay_records' = Append(delay_records, record)
    /\ UNCHANGED <<match_pc, departure, decision>>
    /\ UNCHANGED matchOthers

CallMatch ==
    /\ match_pc = "input"
    /\ decision' = MatchDepartureToDelayRecords(departure, delay_records)
    /\ match_pc' = "done"
    /\ UNCHANGED <<departure, delay_records>>
    /\ UNCHANGED matchOthers

-----------------------------------------------------------------------------
(* The route codes of two labels                                           *)

L_P2 == <<80, 50>>                                  \* "P2"
L_P2x4 == <<80, 50, 80, 50, 80, 50, 80, 50>>        \* "P2P2P2P2"
L_P2x4P == <<80, 50, 80, 50, 80, 50, 80, 50, 80>>   \* "P2P2P2P2P"
L_R16 == <<32, 344, 49, 54, 47, 120, 51, 97>>       \* " Ř16/x3a"

\* the characters of a departure's label: P, 2, R with caron, space, l with
\* stroke
LabelChars == {80, 50, 344, 32, 322}
DepLabels == {None} \cup {Some(text) : text \in SeqsUpTo(LabelChars, MaxLabel)}
RecLabels ==
    {None, Some(L_XP20), Some(L_P2_Plzen), Some(L_P2_S70), Some(L_P2x4),
     Some(L_P2x4P), Some(L_R16)}

CodesIdle ==
    /\ codes_pc = "idle"
    /\ labels = [departure |-> None, record |-> None]
    /\ codes = [departure |-> {}, record |-> {}]

InitCodes ==
    /\ codes_pc = "input"
    /\ labels \in [departure : DepLabels \cup RecLabels, record : RecLabels]
    /\ codes = [departure |-> {}, record |-> {}]

\* lines 856 and 864: the codes of the departure and of the record
CallExtractRouteCodes ==
    /\ codes_pc = "input"
    /\ codes' = [departure |-> ExtractRouteCodes(labels.departure),
                 record |-> ExtractRouteCodes(labels.record)]
    /\ codes_pc' = "done"
    /\ UNCHANGED labels
    /\ UNCHANGED codesOthers

-----------------------------------------------------------------------------
(* choose_train_label                                                      *)

\* Counter.most_common(): by count, the highest first; labels of equal count
\* stay in insertion order.  One entry is put in its place among the sorted.
RECURSIVE PutInOrder(_, _)
PutInOrder(entry, ordered) ==
    IF ordered = <<>> THEN <<entry>>
    ELSE IF entry[2] >= Head(ordered)[2] THEN <<entry>> \o ordered
    ELSE <<Head(ordered)>> \o PutInOrder(entry, Tail(ordered))
RECURSIVE MostCommon(_)
MostCommon(votes) ==
    IF votes = <<>> THEN <<>>
    ELSE PutInOrder(Head(votes), MostCommon(Tail(votes)))

\* sum(votes.values())
RECURSIVE TotalVotes(_)
TotalVotes(votes) ==
    IF votes = <<>> THEN 0 ELSE Head(votes)[2] + TotalVotes(Tail(votes))

\* line 122: ratio < 0.60, with ratio = top_votes / total_votes.  The two
\* floats compare as the fractions do: top_votes / total_votes is rounded to
\* the double nearest to the quotient, 0.60 to the double nearest to 3/5, and
\* no quotient of counts this small lies between 3/5 and its double.
LowRatioInclusive(top_votes, total_votes) == 100 * top_votes <= RATIO_PERCENT * total_votes
LowRatio(top_votes, total_votes) == 100 * top_votes < RATIO_PERCENT * total_votes

\* lines 116-125
IsTie(top_votes, second_votes) == second_votes >= top_votes

StatusAndReason(top_votes, second_votes, total_votes) ==
    IF top_votes < MIN_TOP_VOTES THEN <<"ambiguous", "low_support">>
    ELSE IF IsTie(top_votes, second_votes) THEN <<"ambiguous", "tie">>
    ELSE IF LowRatio(top_votes, total_votes) THEN <<"ambiguous", "low_ratio">>
    ELSE <<"matched", "matched">>

\* lines 127-137
LabelDecision(outcome, ordered, second_votes, total_votes) ==
    [status |-> outcome[1],
     reason |-> outcome[2],
     label |-> IF outcome[1] = "matched" THEN Some(ordered[1][1]) ELSE None,
     top_label |-> Some(ordered[1][1]),
     top_votes |-> ordered[1][2],
     second_votes |-> second_votes,
     total_votes |-> total_votes,
     candidates |-> ordered]

DecideLabel(ordered, second_votes, total_votes) ==
    LabelDecision(StatusAndReason(ordered[1][2], second_votes, total_votes),
                  ordered, second_votes, total_votes)

\* lines 110-113
SecondVotes(ordered) == IF Len(ordered) > 1 THEN ordered[2][2] ELSE 0

NoCandidates ==
    [status |-> "unmatched", reason |-> "no_candidates", label |-> None,
     top_votes |-> 0, second_votes |-> 0, total_votes |-> 0,
     candidates |-> <<>>]

ChooseFrom(ordered, total_votes) == DecideLabel(ordered, SecondVotes(ordered), total_votes)

\* choose_train_label
ChooseTrainLabel(votes) ==
    IF votes = <<>> THEN NoCandidates
    ELSE ChooseFrom(MostCommon(votes), TotalVotes(votes))

\* the labels voted for
TrainLabels == {"Os 7806", "Sp 1706", "R 770"}

\* the Counters: some labels, each once, in some order, each with 1 to
\* MaxVotes votes
Counters ==
    {votes \in SeqsUpTo(TrainLabels \X (1 .. MaxVotes), Cardinality(TrainLabels)) :
        \A i, j \in DOMAIN votes : i # j => votes[i][1] # votes[j][1]}

ChooseIdle ==
    /\ choose_pc = "idle"
    /\ cast = <<>>
    /\ chosen = NoCandidates

InitChoose ==
    /\ choose_pc = "input"
    /\ cast \in Counters
    /\ chosen = NoCandidates

CallChooseTrainLabel ==
    /\ choose_pc = "input"
    /\ chosen' = ChooseTrainLabel(cast)
    /\ choose_pc' = "done"
    /\ UNCHANGED cast
    /\ UNCHANGED chooseOthers

EnrichIdle ==
    /\ enrich_pc = "idle"
    /\ official = <<>>
    /\ merged = <<>>
    /\ edge_index = <<>>
    /\ matched = <<>>
    /\ ambiguous = <<>>
    /\ unmatched = <<>>
    /\ written = <<>>

-----------------------------------------------------------------------------
(* match_merged_trips and rewrite_trips_with_train_numbers                 *)

\* A trip of the merged feed is
\*   [trip_id, rail, trip_short_name, days, edges]
\* trip_id is the n of "T<n>", rail says that the trip's route has route_type
\* "2", days are the weekdays on record for its service (the days flagged in
\* calendar.txt and the weekdays of the dates added in calendar_dates.txt;
\* none if the feed has neither for the service) and edges are its rows of the
\* edges frame (build_edges: one row per pair of consecutive stop_times, so a
\* trip with fewer than two stop_times has none), each row
\*   [from_name, to_name, hhmm]
\* with the normalized stop names ("" if missing) and parse_hhmm's result.

\* build_service_days, lines 536-540: a service with no weekday on record
\* takes every day of the week
FullWeek == 0 .. (DaysPerWeek - 1)
ServiceDaysOnRecord(days) == days
ServiceDays(days) == IF days = {} THEN FullWeek ELSE days

\* line 654: the edges that are looked up
EdgeUsable(edge) == edge.from_name # "" /\ edge.to_name # "" /\ edge.hhmm # None

\* line 657
EdgeKey(edge, day_index) == <<edge.from_name, edge.to_name, edge.hhmm[1], day_index>>

\* official_edge_index.get(key): a Counter, or None (here the empty Counter:
\* line 659 treats both alike)
Candidates(official_edge_index, key) ==
    IF key \in DOMAIN official_edge_index THEN official_edge_index[key] ELSE <<>>

\* Counter.update: counts are added, a new label goes last
AddVotes(votes, label, n) ==
    IF \E i \in DOMAIN votes : votes[i][1] = label
    THEN [i \in DOMAIN votes |->
            IF votes[i][1] = label THEN <<label, votes[i][2] + n>> ELSE votes[i]]
    ELSE Append(votes, <<label, n>>)
RECURSIVE UpdateVotes(_, _)
UpdateVotes(votes, candidates) ==
    IF candidates = <<>> THEN votes
    ELSE UpdateVotes(AddVotes(votes, Head(candidates)[1], Head(candidates)[2]),
                     Tail(candidates))

\* lines 656-660: one edge, over the days of the service, in their order
EarliestDay(days) == CHOOSE d \in days : \A e \in days : d <= e
RECURSIVE VotesOverDays(_, _, _, _)
VotesOverDays(votes, edge, days, official_edge_index) ==
    IF days = {} THEN votes
    ELSE VotesOverDays(
            UpdateVotes(votes, Candidates(official_edge_index,
                                          EdgeKey(edge, EarliestDay(days)))),
            edge, days \ {EarliestDay(days)}, official_edge_index)

\* lines 648-660: the edges of one trip
RECURSIVE TripVotes(_, _, _, _)
TripVotes(votes, trip_rows, days, official_edge_index) ==
    IF trip_rows = <<>> THEN votes
    ELSE TripVotes(
            IF EdgeUsable(Head(trip_rows))
            THEN VotesOverDays(votes, Head(trip_rows), days, official_edge_index)
            ELSE votes,
            Tail(trip_rows), days, official_edge_index)

\* lines 663-674
BaseRow(trip, label_decision) ==
    [trip_id |-> trip.trip_id,
     reason |-> label_decision.reason,
     top_label |-> IF "top_label" \in DOMAIN label_decision
                   THEN label_decision.top_label ELSE None,
     top_votes |-> label_decision.top_votes,
     second_votes |-> label_decision.second_votes,
     total_votes |-> label_decision.total_votes,
     candidates |-> label_decision.candidates]

\* lines 676-681: the three outputs after one trip of grouped_edges
Report(out, trip, label_decision) ==
    IF label_decision.status = "matched" /\ label_decision.label # None
    THEN [out EXCEPT !.matched_labels = (trip.trip_id :> label_decision.label[1]) @@ @]
    ELSE IF label_decision.reason = "no_candidates"
    THEN [out EXCEPT !.unmatched_rows = Append(@, BaseRow(trip, label_decision))]
    ELSE [out EXCEPT !.ambiguous_rows = Append(@, BaseRow(trip, label_decision))]

\* line 636: edges.groupby("trip_id") has a group for a trip only if the trip
\* has a row in edges; line 620: only the trips of rail routes are read
InGroupedEdges(trip) == trip.rail /\ trip.edges # <<>>

\* lines 647-660: the votes that decide a trip
VotesOfTrip(trip, official_edge_index) ==
    TripVotes(<<>>, trip.edges, ServiceDays(trip.days), official_edge_index)

\* lines 642-681
RECURSIVE MatchTrips(_, _, _)
MatchTrips(trips, official_edge_index, out) ==
    IF trips = <<>> THEN out
    ELSE MatchTrips(
            Tail(trips), official_edge_index,
            IF InGroupedEdges(Head(trips))
            THEN Report(out, Head(trips),
                        ChooseTrainLabel(VotesOfTrip(Head(trips), official_edge_index)))
            ELSE out)

NothingReported == [matched_labels |-> <<>>, ambiguous_rows |-> <<>>, unmatched_rows |-> <<>>]

\* match_merged_trips
MatchMergedTrips(trips, official_edge_index) ==
    MatchTrips(trips, official_edge_index, NothingReported)

\* lines 656-658: the keys the loop looks up
LookedUp(trips) ==
    UNION {{EdgeKey(trips[i].edges[j], d) :
                j \in {k \in DOMAIN trips[i].edges : EdgeUsable(trips[i].edges[k])},
                d \in ServiceDays(trips[i].days)} :
            i \in {k \in DOMAIN trips : InGroupedEdges(trips[k])}}

\* line 658: official_edge_index.get(key) on the dict that line 608 returns
\* leaves the dict as it is; a subscript on a defaultdict would add the key
AfterSubscript(official_edge_index, key) ==
    IF key \in DOMAIN official_edge_index THEN official_edge_index
    ELSE (key :> <<>>) @@ official_edge_index
AfterGet(official_edge_index, key) == official_edge_index

\* the index after the lookups of match_merged_trips
RECURSIVE AfterLookups(_, _)
AfterLookups(official_edge_index, keys) ==
    IF keys = {} THEN official_edge_index
    ELSE LET key == CHOOSE k \in keys : TRUE
         IN  AfterLookups(AfterGet(official_edge_index, key), keys \ {key})

\* An official trip is [label, days, edges]: the train label of its route
\* (parse_train_label of route_short_name; None if it has none), the
\* weekdays on record for its service and its rows of the edges frame.

\* line 598: edge_index[key][label] += 1
IndexVote(index, key, label) ==
    IF key \in DOMAIN index
    THEN [index EXCEPT ![key] = AddVotes(@, label, 1)]
    ELSE (key :> <<<<label, 1>>>>) @@ index

\* lines 597-599: one edge, over the days of the service, in their order
RECURSIVE IndexOverDays(_, _, _, _)
IndexOverDays(index, edge, days, label) ==
    IF days = {} THEN index
    ELSE IndexOverDays(IndexVote(index, EdgeKey(edge, EarliestDay(days)), label),
                       edge, days \ {EarliestDay(days)}, label)

\* lines 582-599: the edges of one trip whose route has a label
RECURSIVE IndexEdges(_, _, _, _)
IndexEdges(index, trip_rows, days, label) ==
    IF trip_rows = <<>> THEN index
    ELSE IndexEdges(
            IF EdgeUsable(Head(trip_rows))
            THEN IndexOverDays(index, Head(trip_rows), days, label)
            ELSE index,
            Tail(trip_rows), days, label)

\* lines 564 and 580-599
RECURSIVE IndexTrips(_, _)
IndexTrips(index, trips) ==
    IF trips = <<>> THEN index
    ELSE IndexTrips(
            IF Head(trips).label # None
            THEN IndexEdges(index, Head(trips).edges, ServiceDays(Head(trips).days),
                            Head(trips).label[1])
            ELSE index,
            Tail(trips))

\* build_official_edge_index
BuildOfficialEdgeIndex(trips) == IndexTrips(<<>>, trips)

\* pd.read_csv(trips_path, dtype=str): a field spelled as one of the default
\* missing-value markers is read as NaN (None here), any other as its text
DefaultNaValues ==
    {"", "#N/A", "#N/A N/A", "#NA", "-1.#IND", "-1.#QNAN", "-NaN", "-nan",
     "1.#IND", "1.#QNAN", "<NA>", "N/A", "NA", "NULL", "NaN", "None", "n/a",
     "nan", "null"}
ReadCsvField(text) == IF text \in DefaultNaValues THEN None ELSE Some(text)
\* trips.to_csv: NaN is written as the empty field
WriteCsvField(value) == IF value = None THEN "" ELSE value[1]

\* lines 725-736: the trip_short_name of one row after the loop
ShortNameAfter(trip, matched_labels) ==
    IF ~trip.rail THEN ReadCsvField(trip.trip_short_name)
    ELSE IF trip.trip_id \in DOMAIN matched_labels
    THEN Some(matched_labels[trip.trip_id])
    ELSE Some("")

\* rewrite_trips_with_train_numbers: the rows of the output trips.txt
RewriteTrips(trips, matched_labels) ==
    [i \in DOMAIN trips |->
        [trip_id |-> trips[i].trip_id,
         trip_short_name |-> WriteCsvField(ShortNameAfter(trips[i], matched_labels))]]

\* edges of trips: two that the official feed may know, one with no stop
\* name, one with no time and one the official feed does not have
E_PK == [from_name |-> "plzen hl.n.", to_name |-> "kozolupy", hhmm |-> Some("10:00")]
E_KP == [from_name |-> "kozolupy", to_name |-> "plzen hl.n.", hhmm |-> Some("10:05")]
E_NoName == [from_name |-> "", to_name |-> "kozolupy", hhmm |-> Some("10:00")]
E_NoTime == [from_name |-> "plzen hl.n.", to_name |-> "kozolupy", hhmm |-> None]
E_Other == [from_name |-> "kozolupy", to_name |-> "pnovany", hhmm |-> Some("10:10")]

TripEdges == {<<>>, <<E_PK>>, <<E_PK, E_KP>>, <<E_NoName, E_NoTime>>, <<E_Other>>}
TripDays == {{}, {0}, {0, 1}}

\* the official feeds: none; one train on two days; two trains twice each on
\* different edges; three trains on one edge; a trip of a route without a
\* train label beside a train with no weekday on record
OfficialTrip(label, days, edges) == [label |-> label, days |-> days, edges |-> edges]
OfficialFeeds ==
    {<<>>,
     <<OfficialTrip(Some("Os 100"), {0, 1}, <<E_PK>>)>>,
     <<OfficialTrip(Some("Os 100"), {0}, <<E_PK>>), OfficialTrip(Some("Os 100"), {0}, <<E_PK>>),
       OfficialTrip(Some("Os 200"), {0}, <<E_KP>>), OfficialTrip(Some("Os 200"), {0}, <<E_KP>>)>>,
     <<OfficialTrip(Some("Os 100"), {0}, <<E_PK>>), OfficialTrip(Some("Os 100"), {0}, <<E_PK>>),
       OfficialTrip(Some("R 5"), {0}, <<E_PK>>), OfficialTrip(Some("Sp 1"), {0}, <<E_PK>>)>>,
     <<OfficialTrip(None, {0}, <<E_PK>>),
       OfficialTrip(Some("Os 100"), {}, <<E_PK, E_NoName, E_NoTime>>)>>}

\* the trips a merged feed may hold: rail trips, and trips of other routes
\* with a short name of their own
MergedTrip(trip_id) ==
    {[trip_id |-> trip_id, rail |-> TRUE, trip_short_name |-> "", days |-> d, edges |-> e] :
        d \in TripDays, e \in TripEdges}
    \cup
    {[trip_id |-> trip_id, rail |-> TRUE, trip_short_name |-> "Os 9", days |-> d, edges |-> e] :
        d \in {{0}, {0, 1}}, e \in {<<>>, <<E_PK>>}}
    \cup
    {[trip_id |-> trip_id, rail |-> FALSE, trip_short_name |-> n, days |-> {0}, edges |-> <<>>] :
        n \in {"", "BUS 1", "NA"}}

InitEnrichment ==
    /\ enrich_pc = "input"
    /\ official \in OfficialFeeds
    /\ merged = <<>>
    /\ edge_index = <<>>
    /\ matched = <<>>
    /\ ambiguous = <<>>
    /\ unmatched = <<>>
    /\ written = <<>>

\* one more row in the merged feed's trips.txt
AddMergedTrip ==
    /\ enrich_pc = "input"
    /\ Len(merged) < MaxTrips
    /\ \E trip \in MergedTrip(Len(merged) + 1) : merged' = Append(merged, trip)
    /\ UNCHANGED <<enrich_pc, official, edge_index, matched, ambiguous, unmatched, written>>
    /\ UNCHANGED enrichOthers

\* enrich_merged_feed, line 809
CallBuildOfficialEdgeIndex ==
    /\ enrich_pc = "input"
    /\ edge_index' = BuildOfficialEdgeIndex(official)
    /\ enrich_pc' = "indexed"
    /\ UNCHANGED <<official, merged, matched, ambiguous, unmatched, written>>
    /\ UNCHANGED enrichOthers

\* enrich_merged_feed, lines 812-815
CallMatchMergedTrips ==
    /\ enrich_pc = "indexed"
    /\ matched' = MatchMergedTrips(merged, edge_index).matched_labels
    /\ ambiguous' = MatchMergedTrips(merged, edge_index).ambiguous_rows
    /\ unmatched' = MatchMergedTrips(merged, edge_index).unmatched_rows
    /\ edge_index' = AfterLookups(edge_index, LookedUp(merged))
    /\ enrich_pc' = "matched"
    /\ UNCHANGED <<official, merged, written>>
    /\ UNCHANGED enrichOthers

CallRewriteTrips ==
    /\ enrich_pc = "matched"
    /\ written' = RewriteTrips(merged, matched)
    /\ enrich_pc' = "done"
    /\ UNCHANGED <<official, merged, edge_index, matched, ambiguous, unmatched>>
    /\ UNCHANGED enrichOthers

-----------------------------------------------------------------------------
(* run_conversion: the loop over the trip variants                         *)

\* A file of the input directory is one trip variant:
\*   [core, cal_elem, stops]
\* with the core id of the train, its PlannedCalendar element and the number
\* of its stops; the variant id is the position of the file.

\* PlannedCalendar elements of a run: three well formed, one with a malformed
\* StartDateTime, one with a malformed EndDateTime, one whose EndDateTime is
\* a day later than the bitmap implies
RunElems ==
    {[bitmap |-> <<"1">>, start |-> DateText(FirstDay), end |-> None],
     [bitmap |-> <<"1", "1">>, start |-> DateText(FirstDay), end |-> Some(DateText(FirstDay + 1))],
     [bitmap |-> <<"0", "1">>, start |-> DateText(FirstDay), end |-> Some(DateText(FirstDay + 1))],
     [bitmap |-> <<"1", "1">>, start |-> Malformed, end |-> Some(DateText(FirstDay + 1))],
     [bitmap |-> <<"1", "1">>, start |-> DateText(FirstDay), end |-> Some(Malformed)],
     [bitmap |-> <<"1", "1">>, start |-> DateText(FirstDay), end |-> Some(DateText(FirstDay + 2))]}

VariantFiles ==
    {[core |-> c, cal_elem |-> e, stops |-> n] :
        c \in {"7806", "1706"}, e \in RunElems, n \in {1, 2}}

NoDates == [c \in {} |-> {}]

RunIdle ==
    /\ run_pc = "idle"
    /\ xml_files = <<>>
    /\ file_no = 0
    /\ trains = <<>>
    /\ cals_for_core = NoDates
    /\ cal_ids = <<>>
    /\ routes_txt = <<>>
    /\ trips_txt = <<>>
    /\ calendar_txt = <<>>

\* lines 257-271: the state before the loop
InitRun ==
    /\ run_pc = "running"
    /\ xml_files \in SeqsUpTo(VariantFiles, MaxFiles)
    /\ file_no = 1
    /\ trains = <<>>
    /\ cals_for_core = NoDates
    /\ cal_ids = <<>>
    /\ routes_txt = <<>>
    /\ trips_txt = <<>>
    /\ calendar_txt = <<>>
    /\ reg_pc = "idle"
    /\ calendars = [k \in {} |-> 0]
    /\ next_id = 0
    /\ returned = {}
    /\ last_call = NoCall

\* line 278: cals_for_core.setdefault(train.id_core, set())
SetDefault(dct, key) == IF key \in DOMAIN dct THEN dct[key] ELSE {}

\* lines 275-288: what the loop does with a train that was constructed:
\* "short" and "overlap" are the two continue statements
DisposalByStops(file, dates, dct) == IF file.stops <= 1 THEN "short" ELSE "kept"
Disposal(file, dates, dct) ==
    IF file.stops <= 1 THEN "short"
    ELSE IF dates \cap SetDefault(dct, file.core) # {} THEN "overlap"
    ELSE "kept"

\* lines 278 and 287: cals_for_core after a train with more than one stop
WithDates(dct, core, dates, kept) ==
    [c \in DOMAIN dct \cup {core} |->
        IF c = core
        THEN SetDefault(dct, core) \cup (IF kept THEN dates ELSE {})
        ELSE dct[c]]

\* Train.__init__, lines 143-148: the train of a file, with the calendar that
\* load_calendar returned (inst.id is the identity of the instance, not the
\* id written to the feed)
Train(file_number, file, inst) ==
    [id |-> <<file.core, file_number>>, id_core |-> file.core, calendar |-> inst]

\* lines 272-288: one iteration of the loop.  Train(file) constructs the
\* calendar through load_calendar (line 143); nothing in run_conversion or in
\* Train.__init__ catches what Calendar.__init__ raises, so the exception
\* leaves run_conversion.
ProcessFile ==
    /\ run_pc = "running"
    /\ file_no <= Len(xml_files)
    /\ LET file == xml_files[file_no]
           loaded == LoadCalendar(file.cal_elem, calendars, next_id)
           dates == Calendar(file.cal_elem).dates
           disposal == Disposal(file, dates, cals_for_core)
       IN  IF loaded.raised
           THEN /\ run_pc' = "aborted"
                /\ UNCHANGED <<file_no, trains, cals_for_core, calendars, next_id>>
           ELSE /\ calendars' = loaded.map
                /\ next_id' = next_id + 1
                /\ trains' = IF disposal = "kept"
                             THEN (file_no :> Train(file_no, file, loaded.ret[1])) @@ trains
                             ELSE trains
                /\ cals_for_core' =
                        IF disposal = "short" THEN cals_for_core
                        ELSE WithDates(cals_for_core, file.core, dates, disposal = "kept")
                /\ file_no' = file_no + 1
                /\ UNCHANGED run_pc
    /\ UNCHANGED <<xml_files, reg_pc, returned, last_call>>
    /\ UNCHANGED <<cal_ids, routes_txt, trips_txt, calendar_txt>>
    /\ UNCHANGED runOthers

\* line 327: train_list (here in the order of the files)
RECURSIVE Ascending(_)
Ascending(numbers) ==
    IF numbers = {} THEN <<>>
    ELSE LET least == CHOOSE n \in numbers : \A m \in numbers : n <= m
         IN  <<least>> \o Ascending(numbers \ {least})
TrainList(kept) == [i \in DOMAIN Ascending(DOMAIN kept) |-> kept[Ascending(DOMAIN kept)[i]]]

\* lines 290-340: stops.txt and routes.txt, a route for each train kept
WriteRoutes ==
    /\ run_pc = "running"
    /\ file_no > Len(xml_files)
    /\ routes_txt' = [i \in DOMAIN TrainList(trains) |-> [route_id |-> TrainList(trains)[i].id]]
    /\ run_pc' = "routes"
    /\ UNCHANGED <<xml_files, file_no, trains, cals_for_core, cal_ids, trips_txt, calendar_txt>>
    /\ UNCHANGED regVars
    /\ UNCHANGED runOthers

\* calendars.values(): the instances of the registry, in the order they were
\* registered
Registered(calendars_map) == {calendars_map[k] : k \in DOMAIN calendars_map}

\* line 343: enumerate gives an instance the number of those before it
IndexZero(inst, insts) == 0
EnumerateIndex(inst, insts) == Cardinality({other \in insts : other.id < inst.id})

\* lines 343-344: cal.id = idx for every calendar of the registry
AssignCalendarIds ==
    /\ run_pc = "routes"
    /\ cal_ids' = [n \in {inst.id : inst \in Registered(calendars)} |->
                      EnumerateIndex(CHOOSE inst \in Registered(calendars) : inst.id = n,
                                     Registered(calendars))]
    /\ run_pc' = "numbered"
    /\ UNCHANGED <<xml_files, file_no, trains, cals_for_core, routes_txt, trips_txt, calendar_txt>>
    /\ UNCHANGED regVars
    /\ UNCHANGED runOthers

\* line 350: the row of a train; train.calendar.id is an AttributeError if the
\* instance was given no id
HasId(inst) == inst.id \in DOMAIN cal_ids
TripRow(train) ==
    [route_id |-> train.id, service_id |-> cal_ids[train.calendar.id], trip_id |-> train.id]

\* lines 346-368: trips.txt (and stop_times.txt)
WriteTrips ==
    /\ run_pc = "numbered"
    /\ IF \A f \in DOMAIN trains : HasId(trains[f].calendar)
       THEN /\ trips_txt' = [i \in DOMAIN TrainList(trains) |-> TripRow(TrainList(trains)[i])]
            /\ run_pc' = "trips"
       ELSE /\ run_pc' = "aborted"
            /\ UNCHANGED trips_txt
    /\ UNCHANGED <<xml_files, file_no, trains, cals_for_core, cal_ids, routes_txt, calendar_txt>>
    /\ UNCHANGED regVars
    /\ UNCHANGED runOthers

\* lines 370-386: calendar.txt (and calendar_dates.txt), a row for each
\* calendar of the registry
WriteCalendars ==
    /\ run_pc = "trips"
    /\ IF \A inst \in Registered(calendars) : HasId(inst)
       THEN /\ calendar_txt' =
                    [i \in DOMAIN Ascending(DOMAIN cal_ids) |->
                        [service_id |-> cal_ids[Ascending(DOMAIN cal_ids)[i]]]]
            /\ run_pc' = "finished"
       ELSE /\ run_pc' = "aborted"
            /\ UNCHANGED calendar_txt
    /\ UNCHANGED <<xml_files, file_no, trains, cals_for_core, cal_ids, routes_txt, trips_txt>>
    /\ UNCHANGED regVars
    /\ UNCHANGED runOthers

-----------------------------------------------------------------------------
(* load_calendar called by several threads on one calendars_map            *)

\* load_calendar takes no lock: between a thread's test at line 112 and its
\* insert at line 114 another thread may run.  A step of a thread is one line.

Threads == 1 .. NumThreads

\* elements for the threads: two of the same dates {FirstDay} with different
\* windows, and one of other dates
ThreadElems ==
    {[bitmap |-> <<"1">>, start |-> DateText(FirstDay), end |-> None],
     [bitmap |-> <<"1", "0">>, start |-> DateText(FirstDay), end |-> Some(DateText(FirstDay + 1))],
     [bitmap |-> <<"0", "1">>, start |-> DateText(FirstDay), end |-> Some(DateText(FirstDay + 1))]}

ThreadsIdle ==
    /\ thread_pc = <<>>
    /\ thread_elem = <<>>
    /\ thread_cal = <<>>
    /\ thread_ret = <<>>
    /\ shared_map = <<>>

InitThreads ==
    /\ thread_pc = [t \in Threads |-> "111"]
    /\ thread_elem \in [Threads -> ThreadElems]
    /\ thread_cal = [t \in Threads |-> None]
    /\ thread_ret = [t \in Threads |-> None]
    /\ shared_map = <<>>

\* line 111: cal = Calendar(cal_elem); the instance is the thread's own
ThreadConstruct(t) ==
    /\ thread_pc[t] = "111"
    /\ LET c == Calendar(thread_elem[t])
       IN  IF c.raised
           THEN /\ thread_pc' = [thread_pc EXCEPT ![t] = "raised"]
                /\ UNCHANGED thread_cal
           ELSE /\ thread_cal' = [thread_cal EXCEPT ![t] =
                        Some([id |-> t, start |-> c.start, end |-> c.end,
                              dates |-> c.dates, bitmap |-> c.bitmap])]
                /\ thread_pc' = [thread_pc EXCEPT ![t] = "112"]
    /\ UNCHANGED <<thread_elem, thread_ret, shared_map>>
    /\ UNCHANGED threadOthers

\* line 112: if cal.dates in calendars_map
ThreadTest(t) ==
    /\ thread_pc[t] = "112"
    /\ thread_pc' = [thread_pc EXCEPT ![t] =
            IF Seen(thread_cal[t][1].dates, shared_map) THEN "113" ELSE "114"]
    /\ UNCHANGED <<thread_elem, thread_cal, thread_ret, shared_map>>
    /\ UNCHANGED threadOthers

\* line 113: return calendars_map[cal.dates]
ThreadReturnSeen(t) ==
    /\ thread_pc[t] = "113"
    /\ thread_ret' = [thread_ret EXCEPT ![t] = Some(shared_map[thread_cal[t][1].dates])]
    /\ thread_pc' = [thread_pc EXCEPT ![t] = "done"]
    /\ UNCHANGED <<thread_elem, thread_cal, shared_map>>
    /\ UNCHANGED threadOthers

\* line 114: calendars_map[cal.dates] = cal
ThreadInsert(t) ==
    /\ thread_pc[t] = "114"
    /\ shared_map' = (thread_cal[t][1].dates :> thread_cal[t][1]) @@ shared_map
    /\ thread_pc' = [thread_pc EXCEPT ![t] = "115"]
    /\ UNCHANGED <<thread_elem, thread_cal, thread_ret>>
    /\ UNCHANGED threadOthers

\* line 115: return cal
ThreadReturnNew(t) ==
    /\ thread_pc[t] = "115"
    /\ thread_ret' = [thread_ret EXCEPT ![t] = thread_cal[t]]
    /\ thread_pc' = [thread_pc EXCEPT ![t] = "done"]
    /\ UNCHANGED <<thread_elem, thread_cal, shared_map>>
    /\ UNCHANGED threadOthers

-----------------------------------------------------------------------------
(* gtfs_time and the writing of stop_times.txt                             *)

\* a datetime.time
Time(h, m, s) == [hour |-> h, minute |-> m, second |-> s]

\* datetime.time.__lt__: by hour, then minute, then second
TimeBeforeOrSame(a, b) ==
    \/ a.hour < b.hour
    \/ a.hour = b.hour /\ a.minute < b.minute
    \/ a.hour = b.hour /\ a.minute = b.minute /\ a.second <= b.second
TimeBefore(a, b) ==
    \/ a.hour < b.hour
    \/ a.hour = b.hour /\ a.minute < b.minute
    \/ a.hour = b.hour /\ a.minute = b.minute /\ a.second < b.second

\* f"{n}" and f"{n:02d}" of a number below 100
TwoDigits(n) == <<48 + (n \div 10), 48 + (n % 10)>>
Unpadded(n) == IF n < 10 THEN <<48 + n>> ELSE TwoDigits(n)

\* line 356: the state a train starts with
ClearedState == [last_time |-> None, jumped_midnight |-> FALSE]

\* gtfs_time(time_value, state=state, ...): the state afterwards and the
\* text returned
GtfsTime(time_value, state) ==
    LET jumped_midnight ==
            IF /\ state.last_time # None
               /\ TimeBefore(time_value, state.last_time[1])
               /\ ~state.jumped_midnight
            THEN TRUE
            ELSE state.jumped_midnight
        hour == IF jumped_midnight THEN time_value.hour + 24 ELSE time_value.hour
    IN  [state |-> [last_time |-> Some(time_value), jumped_midnight |-> jumped_midnight],
         text |-> Unpadded(hour) \o <<58>> \o TwoDigits(time_value.minute)
                      \o <<58>> \o TwoDigits(time_value.second)]

\* arrival and departure of a stop: late in the evening, after midnight or
\* across it; the same time twice, up or down by half a minute, and back to
\* the evening
StopTimes ==
    {<<Time(23, 50, 0), Time(23, 50, 0)>>,
     <<Time(23, 50, 0), Time(0, 5, 0)>>,
     <<Time(0, 5, 0), Time(0, 5, 30)>>,
     <<Time(0, 5, 30), Time(0, 5, 0)>>,
     <<Time(0, 5, 0), Time(23, 50, 0)>>}
\* train.stops of a train of train_list: it has more than one stop (line 275)
TrainStops == {stops \in SeqsUpTo(StopTimes, MaxStops) : Len(stops) > 1}

StopTimesIdle ==
    /\ st_pc = "idle"
    /\ st_train = 0
    /\ st_stops = <<>>
    /\ st_idx = 1
    /\ time_state = ClearedState
    /\ st_rows = <<>>

\* line 352: stop_times.txt is opened
InitStopTimes ==
    /\ st_pc = "loop"
    /\ st_train = 0
    /\ st_stops = <<>>
    /\ st_idx = 1
    /\ time_state = ClearedState
    /\ st_rows = <<>>

\* lines 355-356: the next train of train_list and its time_state
TakeTrain ==
    /\ st_pc = "loop"
    /\ st_idx > Len(st_stops)
    /\ st_train < MaxFiles
    /\ st_train' = st_train + 1
    /\ \E stops \in TrainStops : st_stops' = stops
    /\ st_idx' = 1
    /\ time_state' = ClearedState
    /\ st_rows' = <<>>
    /\ UNCHANGED st_pc
    /\ UNCHANGED stOthers

\* lines 357-368: the row of one stop
WriteStopTime ==
    /\ st_pc = "loop"
    /\ st_idx <= Len(st_stops)
    /\ LET arr == GtfsTime(st_stops[st_idx][1], time_state)
           dep == GtfsTime(st_stops[st_idx][2], arr.state)
       IN  /\ time_state' = dep.state
           /\ st_rows' = Append(st_rows, [arrival_time |-> arr.text,
                                          departure_time |-> dep.text,
                                          stop_sequence |-> st_idx])
    /\ st_idx' = st_idx + 1
    /\ UNCHANGED <<st_pc, st_train, st_stops>>
    /\ UNCHANGED stOthers

\* train_list is exhausted and the file closed
CloseStopTimes ==
    /\ st_pc = "loop"
    /\ st_idx > Len(st_stops)
    /\ st_pc' = "done"
    /\ UNCHANGED <<st_train, st_stops, st_idx, time_state, st_rows>>
    /\ UNCHANGED stOthers

-----------------------------------------------------------------------------
(* The JavaScript of the page: normalizeDelayRecord and matchDeparture     *)

\* The departure and the delay records reach the page as JSON: a field that
\* is None in Python is null.  The texts of the pool are ASCII, on which the
\* regular expressions of parseHhmm, parseTrainNumberFromText,
\* parseTrainCategoryFromText and extractRouteCodes are those of
\* extract_hhmm, parse_train_identity and extract_route_codes.

\* Number(value) of a number or of null: Number(null) is 0
JsNumber(value) == IF value = None THEN 0 ELSE value[1]
\* Number.isFinite(Number(value)) ? Number(value) : otherwise: a number and
\* null both give a finite number
FiniteNumberOr(value, otherwise) == Some(JsNumber(value))

\* normalizeTrainCategory: the first run of up to six letters, in lower case
NormalizeTrainCategory(value) ==
    IF ~Truthy(value) THEN None
    ELSE LET text == value[1]
             starts == {p \in DOMAIN text : IsAsciiLetter(text[p])}
         IN  IF starts = {} THEN None
             ELSE LET p == CHOOSE q \in starts : \A r \in starts : q <= r
                      n == IF LetterRun(text, p) < 6 THEN LetterRun(text, p) ELSE 6
                  IN  Some(Lower(SubSeq(text, p, p + n - 1)))

\* normalizeDelayRecord (a record of the pool has no field train)
NormalizeDelayRecord(record) ==
    [raw |-> record,
     status |-> IF record.status = None \/ record.status[1] = ""
                THEN "unknown" ELSE record.status[1],
     trainNumber |-> FiniteNumberOr(record.train_number, None),
     trainCategory |-> NormalizeTrainCategory(
                           Or(record.train_category,
                              ParseTrainIdentity(Some(<<>>)).category)),
     routeCodes |-> ExtractRouteCodes(Or(Or(record.route_text, record.route), Some(<<>>))),
     scheduledMinutes |-> HhmmToMinutes(Or(Or(record.scheduled_time_hhmm,
                                              record.scheduled_actual_time),
                                           Some(<<>>)))]

PageUnknown == [status |-> "unknown", confidence |-> "none",
                match_reason |-> "none", record |-> None]
PageMatched(record, confidence, reason) ==
    [status |-> record.status, confidence |-> confidence,
     match_reason |-> reason, record |-> Some(record)]

\* lines 319-326: the filter of strictCandidates
PageStrict(record, depTrainNumber, depTrainCategory) ==
    /\ record.trainNumber # None
    /\ record.trainNumber = depTrainNumber
    /\ ~(/\ Truthy(depTrainCategory)
         /\ Truthy(record.trainCategory)
         /\ record.trainCategory # depTrainCategory)

\* lines 333-336 and 354-356: within three minutes of the departure
PageNear(record, depMinutes) ==
    /\ record.scheduledMinutes # None
    /\ Abs(record.scheduledMinutes[1] - depMinutes) <= TIME_WINDOW

\* lines 353-358: the filter of routeCodeCandidates
PageSharesRouteCode(record, depMinutes, depRouteCodes) ==
    /\ PageNear(record, depMinutes)
    /\ record.routeCodes # {}
    /\ depRouteCodes \cap record.routeCodes # {}

\* lines 329-368: the decision from the strict candidates
PageDecide(dep, delayRecords, depMinutes, strictCandidates) ==
    IF Len(strictCandidates) = 1
    THEN PageMatched(strictCandidates[1], "high", "train_number")
    ELSE IF Len(strictCandidates) > 1
    THEN LET near == SelectSeq(strictCandidates, LAMBDA r : PageNear(r, depMinutes))
         IN  IF Len(near) = 1 THEN PageMatched(near[1], "high", "train_number")
             ELSE PageUnknown
    ELSE LET depRouteCodes == ExtractRouteCodes(Or(dep.route_short_name, Some(<<>>)))
             candidates == SelectSeq(delayRecords,
                               LAMBDA r : PageSharesRouteCode(r, depMinutes, depRouteCodes))
         IN  IF depRouteCodes = {} THEN PageUnknown
             ELSE IF Len(candidates) = 1
             THEN PageMatched(candidates[1], "medium", "route_code")
             ELSE PageUnknown

\* matchDeparture(departure, delayRecords)
MatchDeparture(dep, delayRecords) ==
    LET depMinutes == HhmmToMinutes(Or(dep.departure_time, Some(<<>>)))
        depTrainNumber ==
            FiniteNumberOr(dep.train_number,
                ParseTrainIdentity(Or(dep.route_short_name, Some(<<>>))).number)
        depTrainCategory ==
            NormalizeTrainCategory(
                Or(dep.train_category,
                   ParseTrainIdentity(Or(dep.route_short_name, Some(<<>>))).category))
    IN  IF depMinutes = None THEN PageUnknown
        ELSE PageDecide(dep, delayRecords, depMinutes[1],
                 IF depTrainNumber # None
                 THEN SelectSeq(delayRecords,
                          LAMBDA r : PageStrict(r, depTrainNumber, depTrainCategory))
                 ELSE <<>>)

PageIdle ==
    /\ page_pc = "idle"
    /\ latestDelayRecords = <<>>
    /\ page_match = PageUnknown

InitPage ==
    /\ page_pc = "input"
    /\ latestDelayRecords = <<>>
    /\ page_match = PageUnknown

\* line 622: the records fetched are normalized, each by normalizeDelayRecord
LoadDelayRecords ==
    /\ page_pc = "input"
    /\ match_pc = "done"
    /\ latestDelayRecords' =
            [i \in DOMAIN delay_records |-> NormalizeDelayRecord(delay_records[i])]
    /\ page_pc' = "loaded"
    /\ UNCHANGED page_match
    /\ UNCHANGED pageOthers

\* lines 486 and 545: matchDeparture(departure, latestDelayRecords)
CallMatchDeparture ==
    /\ page_pc = "loaded"
    /\ page_match' = MatchDeparture(departure, latestDelayRecords)
    /\ page_pc' = "matched"
    /\ UNCHANGED latestDelayRecords
    /\ UNCHANGED pageOthers

-----------------------------------------------------------------------------
(* extract_and_merge_xml_archives                                          *)

\* An archive is
\*   [name, detected, format, members, fails]
\* name: archive_path.name; detected: what detect_archive_type answers;
\* format: the library that can open it ("gzip" for gzip + tarfile, "zip" for
\* zipfile, "other" for neither); members: the base names of its members, in
\* order; fails: None, or the member at which reading breaks off (a
\* truncated or damaged archive) and whether it breaks when the member is
\* reached ("read") or while it is copied out ("copy").

IsXml(member) == member \in {"a.xml", "b.xml"}

NoFile == [f \in {} |-> ""]

\* register_override: the override record of a name seen before, and the
\* new source of the name
RegisterOverride(output_name, archive_name, sources, replaced) ==
    [sources |-> (output_name :> archive_name) @@ sources,
     replaced |-> IF output_name \in DOMAIN sources
                 THEN Append(replaced, [file |-> output_name,
                                        replaced_from |-> sources[output_name],
                                        replaced_by |-> archive_name])
                 ELSE replaced]

BreaksAt(archive, k, during) ==
    archive.fails # None /\ archive.fails[1] = [at |-> k, during |-> during]

\* the loop of try_extract_gzip and of try_extract_zip from member k on:
\* sources, overrides and extracted when the loop ends or breaks off
RECURSIVE ExtractFrom(_, _, _)
ExtractFrom(archive, k, st) ==
    IF k > Len(archive.members) THEN st
    ELSE IF BreaksAt(archive, k, "read") THEN [st EXCEPT !.broke = TRUE]
    ELSE IF ~IsXml(archive.members[k]) THEN ExtractFrom(archive, k + 1, st)
    ELSE LET reg == RegisterOverride(archive.members[k], archive.name,
                                     st.sources, st.replaced)
         IN  IF BreaksAt(archive, k, "copy")
             THEN [st EXCEPT !.sources = reg.sources, !.replaced = reg.replaced,
                             !.broke = TRUE]
             ELSE ExtractFrom(archive, k + 1,
                      [st EXCEPT !.sources = reg.sources, !.replaced = reg.replaced,
                                 !.extracted = st.extracted + 1])

\* try_extract_gzip and try_extract_zip: an archive the library cannot open
\* and an archive that breaks off both return 0
TryExtract(archive, library, sources, replaced) ==
    IF archive.format # library
    THEN [sources |-> sources, replaced |-> replaced, extracted |-> 0]
    ELSE LET st == ExtractFrom(archive, 1, [sources |-> sources, replaced |-> replaced,
                                            extracted |-> 0, broke |-> FALSE])
         IN  [sources |-> st.sources, replaced |-> st.replaced,
              extracted |-> IF st.broke THEN 0 ELSE st.extracted]
TryExtractGzip(archive, sources, replaced) == TryExtract(archive, "gzip", sources, replaced)
TryExtractZip(archive, sources, replaced) == TryExtract(archive, "zip", sources, replaced)

\* extract_xml_archive of download_and_convert_official_gtfs.py: the library
\* of the detected type, then the other one if that extracted nothing
ExtractXmlArchive(archive, sources, replaced) ==
    LET gz == TryExtractGzip(archive, sources, replaced)
        zp == TryExtractZip(archive, sources, replaced)
    IN  IF archive.detected = "gzip"
        THEN IF gz.extracted = 0
             THEN TryExtractZip(archive, gz.sources, gz.replaced) ELSE gz
        ELSE IF archive.detected = "zip"
        THEN IF zp.extracted = 0
             THEN TryExtractGzip(archive, zp.sources, zp.replaced) ELSE zp
        ELSE [sources |-> sources, replaced |-> replaced, extracted |-> 0]

\* the loops of _extract_xml_archive of
\* enrich_merged_with_official_train_numbers.py from member k on: the
\* override is appended before the copy, the source set after it
RECURSIVE ExtractMembers(_, _, _)
ExtractMembers(archive, k, st) ==
    IF k > Len(archive.members) THEN st
    ELSE IF BreaksAt(archive, k, "read") THEN [st EXCEPT !.broke = TRUE]
    ELSE IF ~IsXml(archive.members[k]) THEN ExtractMembers(archive, k + 1, st)
    ELSE LET reg == RegisterOverride(archive.members[k], archive.name,
                                     st.sources, st.replaced)
         IN  IF BreaksAt(archive, k, "copy")
             THEN [st EXCEPT !.replaced = reg.replaced, !.broke = TRUE]
             ELSE ExtractMembers(archive, k + 1,
                      [st EXCEPT !.sources = reg.sources, !.replaced = reg.replaced,
                                 !.extracted = st.extracted + 1])

\* _extract_xml_archive: tarfile.TarError is caught and the count so far
\* returned; what gzip.open raises on another format and what zipfile
\* raises leave the function
ExtractXmlArchiveEnrich(archive, sources, replaced) ==
    LET st == ExtractMembers(archive, 1, [sources |-> sources, replaced |-> replaced,
                                          extracted |-> 0, broke |-> FALSE])
        done == [sources |-> st.sources, replaced |-> st.replaced,
                 extracted |-> st.extracted, raised |-> FALSE]
        none == [sources |-> sources, replaced |-> replaced,
                 extracted |-> 0, raised |-> FALSE]
    IN  IF archive.detected = "unknown" THEN none
        ELSE IF archive.format # archive.detected THEN [none EXCEPT !.raised = TRUE]
        ELSE IF archive.detected = "zip" /\ st.broke THEN [done EXCEPT !.raised = TRUE]
        ELSE done

\* what one archive does to the merge, in either script
Extracted(archive, sources, replaced) ==
    IF script = "enrich"
    THEN ExtractXmlArchiveEnrich(archive, sources, replaced)
    ELSE [sources |-> ExtractXmlArchive(archive, sources, replaced).sources,
          replaced |-> ExtractXmlArchive(archive, sources, replaced).replaced,
          extracted |-> ExtractXmlArchive(archive, sources, replaced).extracted,
          raised |-> FALSE]

MemberNames == {"a.xml", "b.xml", "notes.txt"}
Breaks(members) ==
    {None} \cup {Some([at |-> k, during |-> d]) :
                    k \in DOMAIN members, d \in {"read", "copy"}}
Archives(archive_name) ==
    UNION {{[name |-> archive_name, detected |-> dt, format |-> fm,
             members |-> ms, fails |-> fl] :
                dt \in {"gzip", "zip", "unknown"}, fm \in {"gzip", "zip", "other"},
                fl \in Breaks(ms)} :
           ms \in SeqsUpTo(MemberNames, MaxMembers)}

MergeIdle ==
    /\ merge_pc = "idle"
    /\ script = "download"
    /\ source_by_file = NoFile
    /\ overrides = <<>>
    /\ base_extracted = 0
    /\ updates_extracted = 0
    /\ updates_done = 0
    /\ merge_log = NoFile

\* the output directory is emptied; source_by_file = {}, overrides = []
InitMerge ==
    /\ merge_pc = "base"
    /\ script \in {"download", "enrich"}
    /\ source_by_file = NoFile
    /\ overrides = <<>>
    /\ base_extracted = 0
    /\ updates_extracted = 0
    /\ updates_done = 0
    /\ merge_log = NoFile

\* base_extracted = extract_xml_archive(base_archive, ...)
ExtractBase ==
    /\ merge_pc = "base"
    /\ \E archive \in Archives("base") :
          LET r == Extracted(archive, source_by_file, overrides)
          IN  IF r.raised
              THEN /\ merge_pc' = "raised"
                   /\ UNCHANGED <<source_by_file, overrides, base_extracted>>
              ELSE /\ merge_pc' = "updates"
                   /\ source_by_file' = r.sources
                   /\ overrides' = r.replaced
                   /\ base_extracted' = r.extracted
    /\ UNCHANGED <<script, updates_extracted, updates_done, merge_log>>
    /\ UNCHANGED mergeOthers

\* updates_extracted += extract_xml_archive(update_archive, ...)
ExtractUpdate ==
    /\ merge_pc = "updates"
    /\ updates_done < MaxUpdates
    /\ \E archive \in Archives("update") :
          LET r == Extracted([archive EXCEPT !.name = <<"update", updates_done + 1>>],
                             source_by_file, overrides)
          IN  IF r.raised
              THEN /\ merge_pc' = "raised"
                   /\ UNCHANGED <<source_by_file, overrides, updates_extracted>>
              ELSE /\ UNCHANGED merge_pc
                   /\ source_by_file' = r.sources
                   /\ overrides' = r.replaced
                   /\ updates_extracted' = updates_extracted + r.extracted
    /\ updates_done' = updates_done + 1
    /\ UNCHANGED <<script, base_extracted, merge_log>>
    /\ UNCHANGED mergeOthers

\* the dict returned after the last update archive
ReturnLog ==
    /\ merge_pc = "updates"
    /\ merge_log' = ("base_xml_files_written" :> base_extracted)
                        @@ ("update_xml_files_written" :> updates_extracted)
                        @@ ("final_xml_file_count" :> Cardinality(DOMAIN source_by_file))
                        @@ ("overrides_count" :> Len(overrides))
    /\ merge_pc' = "returned"
    /\ UNCHANGED <<script, source_by_file, overrides, base_extracted,
                   updates_extracted, updates_done>>
    /\ UNCHANGED mergeOthers

-----------------------------------------------------------------------------
(* Specifications                                                          *)

\* One Calendar built from one element, then guess_weekdays and exceptions.
InitCal == InitCalendar /\ RegIdle /\ MatchIdle /\ CodesIdle /\ ChooseIdle /\ EnrichIdle /\ RunIdle /\ ThreadsIdle /\ StopTimesIdle /\ PageIdle /\ MergeIdle
NextCalendar ==
    \/ Construct
    \/ CallGuessWeekdays
    \/ CallExceptions
SpecCalendar == InitCal /\ [][NextCalendar]_vars

\* One conversion run's load_calendar calls on the shared registry.
InitReg == InitRegistry /\ CalIdle /\ MatchIdle /\ CodesIdle /\ ChooseIdle /\ EnrichIdle /\ RunIdle /\ ThreadsIdle /\ StopTimesIdle /\ PageIdle /\ MergeIdle
NextRegistry == CallLoadCalendar
SpecRegistry == InitReg /\ [][NextRegistry]_vars

\* One match_departure_to_delay_records call.
InitMatching == InitMatch /\ CalIdle /\ RegIdle /\ CodesIdle /\ ChooseIdle /\ EnrichIdle /\ RunIdle /\ ThreadsIdle /\ StopTimesIdle /\ PageIdle /\ MergeIdle
NextMatch ==
    \/ AddDelayRecord
    \/ CallMatch
SpecMatch == InitMatching /\ [][NextMatch]_vars

\* One extract_route_codes call on each of two labels.
InitRouteCodes == InitCodes /\ CalIdle /\ RegIdle /\ MatchIdle /\ ChooseIdle /\ EnrichIdle /\ RunIdle /\ ThreadsIdle /\ StopTimesIdle /\ PageIdle /\ MergeIdle
NextRouteCodes == CallExtractRouteCodes
SpecRouteCodes == InitRouteCodes /\ [][NextRouteCodes]_vars

\* One choose_train_label call.
InitChoice == InitChoose /\ CalIdle /\ RegIdle /\ MatchIdle /\ CodesIdle /\ EnrichIdle /\ RunIdle /\ ThreadsIdle /\ StopTimesIdle /\ PageIdle /\ MergeIdle
NextChoose == CallChooseTrainLabel
SpecChoose == InitChoice /\ [][NextChoose]_vars

\* One enrichment of a merged feed: match_merged_trips, then
\* rewrite_trips_with_train_numbers (enrich_merged_feed, lines 809-834).
InitEnrich == InitEnrichment /\ CalIdle /\ RegIdle /\ MatchIdle /\ CodesIdle /\ ChooseIdle /\ RunIdle /\ ThreadsIdle /\ StopTimesIdle /\ PageIdle /\ MergeIdle
NextEnrich == AddMergedTrip \/ CallBuildOfficialEdgeIndex \/ CallMatchMergedTrips \/ CallRewriteTrips
SpecEnrich == InitEnrich /\ [][NextEnrich]_vars

\* load_calendar calls of NumThreads threads on one registry, interleaved
\* line by line.
InitParallel ==
    InitThreads /\ CalIdle /\ RegIdle /\ MatchIdle /\ CodesIdle /\ ChooseIdle /\ EnrichIdle /\ RunIdle /\ StopTimesIdle /\ PageIdle /\ MergeIdle
NextThreads ==
    \E t \in Threads :
        \/ ThreadConstruct(t)
        \/ ThreadTest(t)
        \/ ThreadReturnSeen(t)
        \/ ThreadInsert(t)
        \/ ThreadReturnNew(t)
SpecThreads == InitParallel /\ [][NextThreads]_vars

\* One conversion run.
InitConversion == InitRun /\ CalIdle /\ MatchIdle /\ CodesIdle /\ ChooseIdle /\ EnrichIdle /\ ThreadsIdle /\ StopTimesIdle /\ PageIdle /\ MergeIdle
NextRun ==
    \/ ProcessFile
    \/ WriteRoutes
    \/ AssignCalendarIds
    \/ WriteTrips
    \/ WriteCalendars
SpecRun == InitConversion /\ [][NextRun]_vars

\* The writing of stop_times.txt.
InitWriting == InitStopTimes /\ CalIdle /\ RegIdle /\ MatchIdle /\ CodesIdle /\ ChooseIdle /\ EnrichIdle /\ RunIdle /\ ThreadsIdle /\ PageIdle /\ MergeIdle
NextStopTimes ==
    \/ TakeTrain
    \/ WriteStopTime
    \/ CloseStopTimes
SpecStopTimes == InitWriting /\ [][NextStopTimes]_vars

\* One extract_and_merge_xml_archives call of either script.
InitMerging == InitMerge /\ CalIdle /\ RegIdle /\ MatchIdle /\ CodesIdle /\ ChooseIdle /\ EnrichIdle /\ RunIdle /\ ThreadsIdle /\ StopTimesIdle /\ PageIdle
NextMerge ==
    \/ ExtractBase
    \/ ExtractUpdate
    \/ ReturnLog
SpecMerge == InitMerging /\ [][NextMerge]_vars

-----------------------------------------------------------------------------
(* Properties of the calendar registry (SpecRegistry)                      *)

\* C1: within one run, any two load_calendar calls whose bitmaps produce the
\* same set of active dates returned the very same Calendar instance, and the
\* registry holds exactly one calendar for each distinct set of active dates
\* that a call produced.
C1_SameDatesSameInstance ==
    /\ \A p, q \in returned : p[1] = q[1] => p[2] = q[2]
    /\ DOMAIN calendars = {p[1] : p \in returned}
    /\ \A k \in DOMAIN calendars : calendars[k].dates = k
    /\ \A j, k \in DOMAIN calendars : calendars[j].id = calendars[k].id => j = k

\* a call was handed the instance that an earlier call, of another bitmap,
\* had registered
C1_Witness ==
    /\ last_call.ret # None
    /\ last_call.ret[1].id < next_id - 1
    /\ last_call.ret[1].bitmap # last_call.elem.bitmap
    /\ Cardinality(DOMAIN calendars) >= 2

\* the call of last_call constructed the instance it returned
NewlyRegistered == last_call.ret[1].id = next_id - 1

\* C25 as stated: the calendar load_calendar returned for an input has that
\* input's window, start the supplied start date and end start +
\* (len(bitmap) - 1) days, also when the instance is shared.
C25_WindowOfInput ==
    last_call.ret # None =>
        /\ last_call.ret[1].start = last_call.elem.start.date
        /\ last_call.ret[1].end =
               last_call.elem.start.date + (Len(last_call.elem.bitmap) - 1)

\* C25: the calendar load_calendar returned for an input has that input's
\* active dates, and its window is the window of the input it was constructed
\* from: end = start + (len(bitmap) - 1) of its own bitmap, every active date
\* lies inside it, and it is the window of this input when this call
\* registered the instance.
C25_WindowOfRegisteredInput ==
    last_call.ret # None =>
        LET c == last_call.ret[1]
        IN  /\ c.dates = {last_call.elem.start.date + (i - 1) :
                             i \in {j \in DOMAIN last_call.elem.bitmap :
                                        last_call.elem.bitmap[j] = "1"}}
            /\ c.end = c.start + (Len(c.bitmap) - 1)
            /\ \A d \in c.dates : c.start <= d /\ d <= c.end
            /\ c = calendars[c.dates]
            /\ (NewlyRegistered =>
                    /\ c.bitmap = last_call.elem.bitmap
                    /\ c.start = last_call.elem.start.date)

\* a call was handed a shared instance whose window is not its input's
C25_Witness ==
    /\ last_call.ret # None
    /\ ~NewlyRegistered
    /\ \/ last_call.ret[1].start # last_call.elem.start.date
       \/ last_call.ret[1].end #
              last_call.elem.start.date + (Len(last_call.elem.bitmap) - 1)

HasOtherCharacter(bitmap) == \E i \in DOMAIN bitmap : bitmap[i] \notin {"0", "1"}

\* C5: building a calendar from a bitmap with a character other than "0" or
\* "1" fails: the call raises, returns no calendar and registers none.
C5_OtherCharacterFails ==
    /\ HasOtherCharacter(last_call.elem.bitmap) => last_call.raised /\ last_call.ret = None
    /\ \A k \in DOMAIN calendars : ~HasOtherCharacter(calendars[k].bitmap)

-----------------------------------------------------------------------------
(* Properties of one Calendar (SpecCalendar)                               *)

Constructed == cal_pc \in {"built", "guessed", "done"}
Kinds(kind) == {excs[i][1] : i \in {j \in DOMAIN excs : excs[j][2] = kind}}

\* C2: the dates of [start, end] whose weekday is in guess_weekdays(), with
\* every date exceptions() reports as added put in and every date it reports
\* as removed taken out, are exactly the calendar's active dates.
C2_RoundTrip ==
    (cal_pc = "done" /\ regular_wd = None) =>
        ({d \in cal.start .. cal.end : Weekday(d) \in weekdays}
             \cup Kinds(EXC_ADD)) \ Kinds(EXC_REMOVE) = cal.dates

\* a calendar whose own regular weekdays leave a date to add and one to remove
C2_Witness ==
    /\ cal_pc = "done" /\ regular_wd = None
    /\ Kinds(EXC_ADD) # {} /\ Kinds(EXC_REMOVE) # {}
    /\ weekdays # {}

\* C3: the active dates of a calendar built from a bitmap of length n lie in
\* [start, start + (n - 1) days], start being the element's start date.
C3_DatesInRange ==
    Constructed =>
        cal.dates \subseteq
            cal_elem.start.date .. (cal_elem.start.date + (Len(cal_elem.bitmap) - 1))

C3_Witness ==
    /\ Constructed
    /\ Len(cal_elem.bitmap) >= 2
    /\ cal_elem.start.date \in cal.dates
    /\ cal_elem.start.date + (Len(cal_elem.bitmap) - 1) \in cal.dates

\* C4: a constructed calendar has end = start + (bitmap length - 1) days, and
\* no calendar is constructed from a bitmap longer than one day whose explicit
\* end date is another date.
C4_EndFromBitmap ==
    /\ Constructed => cal.end = cal.start + (Len(cal_elem.bitmap) - 1)
    /\ (/\ cal_pc \notin {"idle", "input"}
        /\ Len(cal_elem.bitmap) > 1
        /\ cal_elem.start.wf
        /\ cal_elem.end # None
        /\ cal_elem.end[1].wf
        /\ cal_elem.end[1].date # cal_elem.start.date + (Len(cal_elem.bitmap) - 1))
           => cal_pc = "failed"

C4_Witness ==
    /\ cal_pc = "failed"
    /\ Len(cal_elem.bitmap) > 1
    /\ cal_elem.start.wf /\ cal_elem.end # None /\ cal_elem.end[1].wf
    /\ cal_elem.end[1].date = cal_elem.start.date + Len(cal_elem.bitmap)

\* C6: a bitmap of length 1, "1" or "0", gives a calendar with end = start
\* whatever the element holds as its end date, also none.
C6_OneDayNeedsNoEnd ==
    (/\ cal_pc \notin {"idle", "input"}
     /\ cal_elem.bitmap \in {<<"1">>, <<"0">>}
     /\ cal_elem.start.wf)
        => (Constructed /\ cal.end = cal.start)

Occurrences(wd) == {d \in cal.start .. cal.end : Weekday(d) = wd}

\* C7: a weekday is in guess_weekdays() exactly when more dates of that
\* weekday in [start, end] are active than inactive: always when all its
\* dates are active, never when none is, and not when as many are active as
\* inactive.
C7_RegularIffMajority ==
    cal_pc \in {"guessed", "done"} =>
        \A wd \in 0 .. 6 :
            LET active == Occurrences(wd) \cap cal.dates
                inactive == Occurrences(wd) \ cal.dates
            IN  /\ wd \in weekdays <=> Cardinality(active) > Cardinality(inactive)
                /\ (active # {} /\ inactive = {}) => wd \in weekdays
                /\ active = {} => wd \notin weekdays
                /\ Cardinality(active) = Cardinality(inactive) => wd \notin weekdays

\* one weekday is active on one of its two dates, another on all of its dates
C7_Witness ==
    /\ cal_pc = "guessed"
    /\ \E wd \in 0 .. 6 :
          /\ Cardinality(Occurrences(wd) \cap cal.dates) = 1
          /\ Cardinality(Occurrences(wd) \ cal.dates) = 1
          /\ wd \notin weekdays
    /\ weekdays # {}

\* C8: exceptions(regular_wd) lists, by ascending date and once each, the
\* dates of [start, end] where being active differs from the weekday being
\* regular: added (1) for an active date of a weekday that is not regular,
\* removed (2) for an inactive date of a regular weekday; without an argument
\* the regular weekdays are those of guess_weekdays().
C8_ExceptionsAreTheDisagreements ==
    cal_pc = "done" =>
        LET regular == IF regular_wd = None THEN weekdays ELSE regular_wd[1]
            interval == cal.start .. cal.end
        IN  /\ \A i, j \in DOMAIN excs : i < j => excs[i][1] < excs[j][1]
            /\ {excs[i] : i \in DOMAIN excs}
                   = {<<d, 1>> : d \in {e \in interval :
                                          e \in cal.dates /\ Weekday(e) \notin regular}}
                     \cup {<<d, 2>> : d \in {e \in interval :
                                               e \notin cal.dates /\ Weekday(e) \in regular}}

C8_Witness ==
    /\ cal_pc = "done"
    /\ regular_wd # None /\ regular_wd[1] # weekdays
    /\ Kinds(EXC_ADD) # {} /\ Kinds(EXC_REMOVE) # {}
    /\ excs[Len(excs)][1] = cal.end

-----------------------------------------------------------------------------
(* Properties of match_departure_to_delay_records (SpecMatch)              *)

\* the candidate has the target's train number, and its category when both
\* categories are known
SameTrain(target, record) ==
    /\ target.number # None /\ record.train_number # None
    /\ record.train_number[1] = target.number[1]
    /\ (Truthy(target.category) /\ Truthy(record.train_category)) =>
           NormalizeForMatching(record.train_category)
               = NormalizeForMatching(target.category)

\* where in the pool the candidates of the target's train are
SameTrainAt(target) == {i \in DOMAIN delay_records : SameTrain(target, delay_records[i])}

\* minutes between the target's and the candidate's scheduled times
MinutesApart(record_minutes, dep_minutes) ==
    IF record_minutes[1] < dep_minutes[1]
    THEN dep_minutes[1] - record_minutes[1]
    ELSE record_minutes[1] - dep_minutes[1]

\* is the candidate's scheduled time known and n minutes from the target's?
Apart(record, dep_minutes, n) ==
    /\ dep_minutes # None
    /\ RecordMinutes(record) # None
    /\ MinutesApart(RecordMinutes(record), dep_minutes) = n

High(record) ==
    [status |-> StatusOf(record), confidence |-> "high",
     match_reason |-> "train_number", record |-> Some(record)]

\* C9 as stated: exactly one candidate with the target's number (and category)
\* gives high / train_number with that candidate's status.
C9_UniqueNumberIsHigh ==
    match_pc = "done" =>
        LET same == SameTrainAt(DepIdentity(departure))
        IN  Cardinality(same) = 1 =>
                \A i \in same : decision = High(delay_records[i])

\* C9 as amended: the same, for a target whose departure_time holds a time.
C9_UniqueNumberIsHighGivenTime ==
    (match_pc = "done" /\ HhmmToMinutes(departure.departure_time) # None) =>
        LET same == SameTrainAt(DepIdentity(departure))
        IN  Cardinality(same) = 1 =>
                \A i \in same : decision = High(delay_records[i])

\* the only candidate of the target's number is 7 minutes away, and matched
C9_Witness ==
    /\ match_pc = "done"
    /\ Len(delay_records) = 2
    /\ LET same == SameTrainAt(DepIdentity(departure))
       IN  \E i \in same :
              /\ same = {i}
              /\ Apart(delay_records[i], HhmmToMinutes(departure.departure_time), 7)
              /\ decision = High(delay_records[i])

\* the candidates of the target's train that are within 3 minutes of its time
Survivors(same, dep_minutes) ==
    {i \in same : \E n \in 0 .. 3 : Apart(delay_records[i], dep_minutes, n)}

\* C10: with two or more candidates of the target's number and category, the
\* decision is high / train_number with the status of the only one within 3
\* minutes of the target's time, and unknown / none / none when none or
\* several are; it is never the route-code match.
C10_TieBrokenByTime ==
    match_pc = "done" =>
        LET same == SameTrainAt(DepIdentity(departure))
        IN  Cardinality(same) >= 2 =>
                LET near == Survivors(same, HhmmToMinutes(departure.departure_time))
                IN  /\ Cardinality(near) = 1 =>
                           \A i \in near : decision = High(delay_records[i])
                    /\ Cardinality(near) # 1 => decision = Unknown
                    /\ decision.match_reason # "route_code"

\* two candidates of the target's number, one exactly 3 minutes away and
\* matched, the other further; the route codes alone do not single it out
C10_Witness ==
    /\ match_pc = "done"
    /\ LET same == SameTrainAt(DepIdentity(departure))
           near == Survivors(same, HhmmToMinutes(departure.departure_time))
       IN  /\ Cardinality(same) = 2
           /\ \E i \in near :
                 /\ near = {i}
                 /\ Apart(delay_records[i], HhmmToMinutes(departure.departure_time), 3)
                 /\ decision = High(delay_records[i])
                 /\ ExtractRouteCodes(departure.route_short_name)
                        \cap ExtractRouteCodes(Or(delay_records[i].route_text,
                                                 delay_records[i].route)) = {}


-----------------------------------------------------------------------------
(* Properties of the route codes (SpecRouteCodes)                          *)

\* a character without its diacritic and in lower case
Plain(ch) ==
    IF ch \in {344, 345} THEN 114
    ELSE IF ch \in 65 .. 90 THEN ch + 32
    ELSE ch
PlainText(value) == [i \in DOMAIN OrEmpty(value) |-> Plain(OrEmpty(value)[i])]
IsPlainLetter(ch) == ch \in 97 .. 122
IsPlainDigit(ch) == ch \in 48 .. 57
IsAlnum(ch) == IsPlainLetter(ch) \/ IsPlainDigit(ch)

\* the maximal alphanumeric runs of the plain text that are 2 to 8 characters
\* long and hold a letter and a digit
WholeTokens(value) ==
    LET text == PlainText(value)
    IN  {SubSeq(text, i, j) : <<i, j>> \in
            {p \in (DOMAIN text) \X (DOMAIN text) :
                /\ p[1] <= p[2]
                /\ \A k \in p[1] .. p[2] : IsAlnum(text[k])
                /\ (p[1] = 1 \/ ~IsAlnum(text[p[1] - 1]))
                /\ (p[2] = Len(text) \/ ~IsAlnum(text[p[2] + 1]))
                /\ p[2] - p[1] + 1 \in 2 .. 8
                /\ \E k \in p[1] .. p[2] : IsPlainLetter(text[k])
                /\ \E k \in p[1] .. p[2] : IsPlainDigit(text[k])}}

\* C13: the route codes of a label are its maximal alphanumeric runs, without
\* diacritics and in lower case, that are 2 to 8 characters long and hold a
\* letter and a digit; two labels share a code only when a whole token of one
\* is a whole token of the other, never when it is only a part of one.
C13_WholeTokens ==
    codes_pc = "done" =>
        /\ codes.departure = WholeTokens(labels.departure)
        /\ codes.record = WholeTokens(labels.record)
        /\ codes.departure \cap codes.record
               = WholeTokens(labels.departure) \cap WholeTokens(labels.record)

\* the target "P2" and the candidate "XP20 Kl": p2 is a part of xp20, and the
\* two share no code
C13_Witness ==
    /\ codes_pc = "done"
    /\ labels = [departure |-> Some(L_P2), record |-> Some(L_XP20)]
    /\ codes.departure = {<<112, 50>>}
    /\ codes.record = {<<120, 112, 50, 48>>}
    /\ codes.departure \cap codes.record = {}

-----------------------------------------------------------------------------
(* One match on a pool of records around 10:17 (SpecPool)                  *)

T_1017 == <<49, 48, 58, 49, 55, 58, 48, 48>>        \* "10:17:00"
T_1021 == <<49, 48, 58, 50, 49>>                    \* "10:21"

Target(time, number, category, label) ==
    [departure_time |-> time, train_number |-> number,
     train_category |-> category, route_short_name |-> label]

\* the targets: with their own identity, without a category, with a number
\* of their own next to a label that reads as another train, with the
\* identity in the label only, with a route code only, with nothing; each
\* with and without a departure time
PoolDepartures ==
    {Target(time, id[1], id[2], id[3]) :
        time \in {None, Some(T_1017)},
        id \in {<<Some(12), Some(C_Os), Some(L_P2)>>,
                <<Some(12), None, None>>,
                <<Some(12), None, Some(L_P2)>>,
                <<None, None, Some(L_Os_12)>>,
                <<None, None, Some(L_P2)>>,
                <<None, None, None>>}}

\* the candidates: 3 minutes before the target, 4 minutes after it, or
\* without a time; of no train, of train 12 in two categories; labelled
\* "P2 Plz" or "XP20 Kl"; one record with nothing in it, and one of train
\* 12 on "P2 Plz" without a status
PoolRecords ==
    {[train_number |-> id[1], train_category |-> id[2],
      scheduled_time_hhmm |-> t, scheduled_actual_time |-> None,
      route_text |-> r[1], route |-> r[2], status |-> r[3]] :
        id \in {<<None, None>>, <<Some(12), Some(C_OS)>>, <<Some(12), Some(C_R)>>},
        t \in {Some(T_1014), Some(T_1021), None},
        r \in RecordLines}
    \cup {[train_number |-> None, train_category |-> None,
           scheduled_time_hhmm |-> None, scheduled_actual_time |-> None,
           route_text |-> None, route |-> None, status |-> None],
          [train_number |-> Some(12), train_category |-> None,
           scheduled_time_hhmm |-> Some(T_1014), scheduled_actual_time |-> None,
           route_text |-> Some(L_P2_Plzen), route |-> None, status |-> None]}

InitPool ==
    /\ match_pc = "input"
    /\ departure \in PoolDepartures
    /\ delay_records = <<>>
    /\ decision = Unknown
    /\ CalIdle
    /\ RegIdle
    /\ CodesIdle
    /\ ChooseIdle
    /\ EnrichIdle
    /\ RunIdle
    /\ MergeIdle
    /\ PageIdle
    /\ StopTimesIdle
    /\ ThreadsIdle

\* one more delay record scraped into the pool before the match
AddPoolRecord ==
    /\ match_pc = "input"
    /\ Len(delay_records) < MaxPool
    /\ \E record \in PoolRecords : delay_records' = Append(delay_records, record)
    /\ UNCHANGED <<match_pc, departure, decision>>
    /\ UNCHANGED matchOthers

NextPool ==
    \/ AddPoolRecord
    \/ CallMatch
SpecPool == InitPool /\ [][NextPool]_vars

\* One match on a pool of records, by match_departure_to_delay_records and
\* then by the page's matchDeparture on the same departure and records.
InitBoth ==
    /\ match_pc = "input"
    /\ departure \in PoolDepartures
    /\ delay_records = <<>>
    /\ decision = Unknown
    /\ InitPage
    /\ CalIdle /\ RegIdle /\ CodesIdle /\ ChooseIdle /\ EnrichIdle
    /\ RunIdle /\ ThreadsIdle /\ StopTimesIdle /\ MergeIdle
NextPage ==
    \/ AddPoolRecord
    \/ CallMatch
    \/ LoadDelayRecords
    \/ CallMatchDeparture
SpecPage == InitBoth /\ [][NextPage]_vars


-----------------------------------------------------------------------------
(* Properties of the match on the pool (SpecPool)                          *)

\* does the candidate's label share a route code with the target's?
SharesRouteCode(record) ==
    ExtractRouteCodes(departure.route_short_name)
        \cap ExtractRouteCodes(Or(record.route_text, record.route)) # {}

IsNone(d) == d.status = "unknown" /\ d.confidence = "none" /\ d.match_reason = "none"

\* C11 as stated: two or more candidates of the target's number and category
\* give unknown / none / none, whatever the route codes.
C11_SameTrainTwiceIsNone ==
    match_pc = "done" =>
        (Cardinality(SameTrainAt(DepIdentity(departure))) >= 2 => IsNone(decision))

\* C11 as amended: two or more candidates of the target's number and
\* category, of which not exactly one is within 3 minutes of the target's
\* time, give unknown / none / none, whatever the route codes.
C11_SameTrainTwiceIsNoneUnlessOneNear ==
    match_pc = "done" =>
        LET same == SameTrainAt(DepIdentity(departure))
            near == Survivors(same, HhmmToMinutes(departure.departure_time))
        IN  (Cardinality(same) >= 2 /\ Cardinality(near) # 1) =>
                (IsNone(decision) /\ decision.record = None)

\* two candidates of the target's train, both within 3 minutes, only one of
\* them with a route code of the target: still no match
C11_Witness ==
    /\ match_pc = "done"
    /\ IsNone(decision)
    /\ LET same == SameTrainAt(DepIdentity(departure))
           near == Survivors(same, HhmmToMinutes(departure.departure_time))
       IN  /\ Cardinality(same) = 2
           /\ near = same
           /\ Cardinality({i \in same : SharesRouteCode(delay_records[i])}) = 1


Medium(record) ==
    [status |-> StatusOf(record), confidence |-> "medium",
     match_reason |-> "route_code", record |-> Some(record)]

\* the candidates within 3 minutes of the target's time whose label shares a
\* route code with the target's
NearOnRoute(dep_minutes) ==
    {i \in DOMAIN delay_records :
        /\ \E n \in 0 .. 3 : Apart(delay_records[i], dep_minutes, n)
        /\ SharesRouteCode(delay_records[i])}

\* C12: when no candidate is of the target's train, the decision is medium /
\* route_code with the status of the only candidate that is within 3 minutes
\* of the target's time and shares a route code with it, and is unknown /
\* none / none when there is no such candidate or several; a candidate 4
\* minutes away is never the match.
C12_RouteCodeFallback ==
    (match_pc = "done" /\ SameTrainAt(DepIdentity(departure)) = {}) =>
        LET dep_minutes == HhmmToMinutes(departure.departure_time)
            near == NearOnRoute(dep_minutes)
        IN  /\ Cardinality(near) = 1 =>
                   \A i \in near : decision = Medium(delay_records[i])
            /\ Cardinality(near) # 1 => decision = Unknown
            /\ decision.record # None => ~Apart(decision.record[1], dep_minutes, 4)

\* two candidates with the target's route code, one 3 minutes away and
\* matched, the other 4 minutes away
C12_Witness ==
    /\ match_pc = "done"
    /\ SameTrainAt(DepIdentity(departure)) = {}
    /\ Len(delay_records) = 2
    /\ LET dep_minutes == HhmmToMinutes(departure.departure_time)
       IN  /\ \A i \in DOMAIN delay_records : SharesRouteCode(delay_records[i])
           /\ Apart(delay_records[1], dep_minutes, 4)
           /\ Apart(delay_records[2], dep_minutes, 3)
           /\ decision = Medium(delay_records[2])


\* the candidates with the target's number, whatever their category
SameNumberAt(target) ==
    {i \in DOMAIN delay_records :
        /\ target.number # None /\ delay_records[i].train_number # None
        /\ delay_records[i].train_number[1] = target.number[1]}

LabelIdentity ==
    [number |-> ParseTrainIdentity(departure.route_short_name).number,
     category |-> IF departure.train_category = None
                  THEN ParseTrainIdentity(departure.route_short_name).category
                  ELSE departure.train_category]

CarriesLabelNumber(record) ==
    /\ LabelIdentity.number # None
    /\ record.train_number = LabelIdentity.number

\* C15 as stated: for a target without a train_number, the only candidate
\* that carries the number read from the target's route_short_name is matched
\* high / train_number.
C15_LabelNumberIsHigh ==
    (match_pc = "done" /\ departure.train_number = None) =>
        LET carriers == {i \in DOMAIN delay_records : CarriesLabelNumber(delay_records[i])}
        IN  Cardinality(carriers) = 1 =>
                \A i \in carriers : decision = High(delay_records[i])

\* C15 as amended: for a target without a train_number and with a departure
\* time, the only candidate that carries the number read from the target's
\* route_short_name, in the target's category when both have one, is matched
\* high / train_number.
C15_LabelNumberIsHighGivenTimeAndCategory ==
    (/\ match_pc = "done"
     /\ departure.train_number = None
     /\ HhmmToMinutes(departure.departure_time) # None) =>
        LET same == SameTrainAt(LabelIdentity)
        IN  Cardinality(same) = 1 =>
                \A i \in same : decision = High(delay_records[i])

\* the target "Os 12" without a number of its own, a record without a number
\* and the record of Os 12, four minutes away, which is matched
C15_Witness ==
    /\ match_pc = "done"
    /\ departure.train_number = None
    /\ departure.route_short_name = Some(L_Os_12)
    /\ LabelIdentity.number = Some(12)
    /\ Len(delay_records) = 2
    /\ delay_records[1].train_number = None
    /\ delay_records[2].train_number = Some(12)
    /\ Apart(delay_records[2], HhmmToMinutes(departure.departure_time), 4)
    /\ decision = High(delay_records[2])


\* the record with nothing in it
Blank ==
    [train_number |-> None, train_category |-> None,
     scheduled_time_hhmm |-> None, scheduled_actual_time |-> None,
     route_text |-> None, route |-> None, status |-> None]

\* C16: the call returns a decision for every target and pool: unknown /
\* none / none without a record, or a record of the pool with its status at
\* confidence high or medium.  Missing data gives unknown: an empty pool, a
\* target without a time in departure_time, a target with neither a number
\* nor a route code; a record without a time and a number, or without a
\* number and a label, is never the match; nor is a record that is in the
\* pool twice.
C16_AlwaysADecision ==
    match_pc = "done" =>
        /\ \/ decision = Unknown
           \/ \E i \in DOMAIN delay_records :
                 \/ decision = High(delay_records[i])
                 \/ decision = Medium(delay_records[i])
        /\ delay_records = <<>> => decision = Unknown
        /\ HhmmToMinutes(departure.departure_time) = None => decision = Unknown
        /\ (/\ DepIdentity(departure).number = None
            /\ ExtractRouteCodes(departure.route_short_name) = {}) => decision = Unknown
        /\ \A i \in DOMAIN delay_records :
              LET record == delay_records[i]
              IN  (\/ record.train_number = None /\ RecordMinutes(record) = None
                   \/ record.train_number = None
                          /\ ~Truthy(Or(record.route_text, record.route))
                   \/ \E j \in DOMAIN delay_records : j # i /\ delay_records[j] = record)
                      => decision.record # Some(record)

\* a target of train 12 without a departure time, the record with nothing in
\* it and a record of train 12: unknown
C16_Witness ==
    /\ match_pc = "done"
    /\ departure.departure_time = None
    /\ departure.train_number = Some(12)
    /\ Len(delay_records) = 2
    /\ delay_records[1] = Blank
    /\ delay_records[2].train_number = Some(12)
    /\ decision = Unknown

-----------------------------------------------------------------------------
(* Properties of the vote threshold (SpecChoose)                           *)

\* the counts of a Counter, and the highest of some counts (0 of none)
CountsOf(votes) == [i \in DOMAIN votes |-> votes[i][2]]
Highest(counts) ==
    IF DOMAIN counts = {} THEN 0
    ELSE CHOOSE c \in {counts[i] : i \in DOMAIN counts} :
            \A i \in DOMAIN counts : counts[i] <= c
\* a position holding the highest count
TopPosition(counts) == CHOOSE i \in DOMAIN counts : counts[i] = Highest(counts)
\* the next highest count: the highest of the counts at the other positions
NextHighest(counts) ==
    Highest([i \in DOMAIN counts \ {TopPosition(counts)} |-> counts[i]])
Sum(counts) == TotalVotes([i \in DOMAIN counts |-> <<"", counts[i]>>])

\* C17: choose_train_label decides from the votes by these tests in this
\* order, with top the highest count, second the next highest or 0 and total
\* the sum: no votes is unmatched/no_candidates; top < 2 is
\* ambiguous/low_support; second >= top is ambiguous/tie; top/total < 0.60 is
\* ambiguous/low_ratio; otherwise matched, with the label that holds the top
\* count.  Exactly 0.60 (3 of 5 votes) is matched.
C17_VoteThresholds ==
    choose_pc = "done" =>
        LET top == Highest(CountsOf(cast))
            second == NextHighest(CountsOf(cast))
            total == Sum(CountsOf(cast))
            outcome == <<chosen.status, chosen.reason>>
        IN  IF cast = <<>> THEN
                outcome = <<"unmatched", "no_candidates">> /\ chosen.label = None
            ELSE IF top < 2 THEN
                outcome = <<"ambiguous", "low_support">> /\ chosen.label = None
            ELSE IF second >= top THEN
                outcome = <<"ambiguous", "tie">> /\ chosen.label = None
            ELSE IF 5 * top < 3 * total THEN
                outcome = <<"ambiguous", "low_ratio">> /\ chosen.label = None
            ELSE
                /\ outcome = <<"matched", "matched">>
                /\ \E i \in DOMAIN cast :
                    /\ cast[i][2] = top
                    /\ chosen.label = Some(cast[i][1])
                /\ (5 * top = 3 * total => chosen.status = "matched")

\* 3 votes of 5 for the first label: matched, at a ratio of exactly 0.60
C17_Witness ==
    /\ choose_pc = "done"
    /\ cast = <<<<"Os 7806", 3>>, <<"Sp 1706", 2>>>>
    /\ chosen.status = "matched"
    /\ chosen.label = Some("Os 7806")

-----------------------------------------------------------------------------
(* Properties of the enrichment (SpecEnrich)                               *)

\* the keys of a trip: one for each of its edges with both stop names and a
\* time, on each day of its service
KeysOf(trip) ==
    {EdgeKey(trip.edges[i], d) : i \in {j \in DOMAIN trip.edges : EdgeUsable(trip.edges[j])},
                                 d \in ServiceDays(trip.days)}
NoKeyInIndex(trip) == KeysOf(trip) \cap DOMAIN edge_index = {}
ReportedUnmatched(trip) ==
    \E i \in DOMAIN unmatched :
        unmatched[i].trip_id = trip.trip_id /\ unmatched[i].reason = "no_candidates"

\* C18: a rail trip none of whose (origin name, destination name, HHMM,
\* weekday) keys occurs in the edge index is reported as unmatched with the
\* reason no_candidates, and gets no train label.
C18_NoKeyIsUnmatched ==
    enrich_pc = "done" =>
        \A i \in DOMAIN merged :
            merged[i].rail /\ NoKeyInIndex(merged[i]) =>
                /\ ReportedUnmatched(merged[i])
                /\ written[i].trip_short_name = ""


\* the trips reported as ambiguous or as unmatched
ReportedUnlabelled ==
    {ambiguous[i].trip_id : i \in DOMAIN ambiguous} \cup
    {unmatched[i].trip_id : i \in DOMAIN unmatched}

\* C19: after enrichment every trip of a rail route has its matched label as
\* trip_short_name if it was matched and the empty one otherwise (never a
\* label if it was reported as ambiguous or unmatched), and every trip of
\* another route has the trip_short_name it had in the merged feed.
C19_RailRelabelledOthersKept ==
    enrich_pc = "done" =>
        \A i \in DOMAIN merged :
            IF merged[i].rail
            THEN /\ written[i].trip_short_name =
                        IF i \in DOMAIN matched THEN matched[i] ELSE ""
                 /\ (i \in ReportedUnlabelled => written[i].trip_short_name = "")
            ELSE written[i].trip_short_name = merged[i].trip_short_name

-----------------------------------------------------------------------------
(* Properties of the conversion run (SpecRun)                              *)

\* what Calendar.__init__ raises on the end not matching the bitmap (line 64)
EndMismatch(elem) == Calendar(elem).raised /\ Calendar(elem).err = "Nesedi EndDateTime"

\* C20: a trip variant whose calendar is malformed in another way than by an
\* end that does not match the bitmap (a malformed date-time text, say) is
\* skipped and the run goes on with the other variants; only the mismatch of
\* bitmap and end aborts the run.
C20_OnlyMismatchAborts ==
    run_pc = "aborted" => EndMismatch(xml_files[file_no].cal_elem)


\* the votes a Counter holds for a label
VoteCount(votes, label) ==
    IF \E i \in DOMAIN votes : votes[i][1] = label
    THEN votes[CHOOSE i \in DOMAIN votes : votes[i][1] = label][2]
    ELSE 0
\* the edges of a trip that have both stop names and a time
Usable(trip) == {j \in DOMAIN trip.edges : EdgeUsable(trip.edges[j])}
\* the weekdays a service is active on, as its feed records them; and the
\* same with every weekday for a service with none on record
Recorded(days) == days
RecordedOrAll(days) == IF days = {} THEN 0 .. 6 ELSE days
\* the official trip edges that vote for a label under a key: one for each
\* edge of a trip with that label, of those stops and that time, whose
\* service is active on the key's weekday
Voters(key, label, Active(_)) ==
    UNION {{<<t, j>> : j \in {k \in Usable(official[t]) :
                                    key = EdgeKey(official[t].edges[k], key[4])}} :
            t \in {u \in DOMAIN official :
                        /\ official[u].label = Some(label)
                        /\ key[4] \in Active(official[u].days)}}
\* the lookups of a target trip: one for each of its edges and each weekday
\* its service is active on
Lookups(trip, Active(_)) == Usable(trip) \X Active(trip.days)
SumOfVotes(trip, label, Active(_)) ==
    Cardinality(UNION {{<<l, v>> : v \in Voters(EdgeKey(trip.edges[l[1]], l[2]), label, Active)} :
                        l \in Lookups(trip, Active)})
OfficialLabels == {official[t].label[1] : t \in {u \in DOMAIN official : official[u].label # None}}
AllKeys ==
    {EdgeKey(e, d) : e \in {E_PK, E_KP, E_Other}, d \in 0 .. 6}
VotesAsSummed(Active(_)) ==
    enrich_pc \in {"indexed", "matched", "done"} =>
        /\ \A key \in AllKeys \cup DOMAIN edge_index : \A label \in OfficialLabels :
                VoteCount(Candidates(edge_index, key), label)
                    = Cardinality(Voters(key, label, Active))
        /\ \A key \in DOMAIN edge_index : \A i \in DOMAIN edge_index[key] :
                edge_index[key][i][1] \in OfficialLabels /\ edge_index[key][i][2] > 0
        /\ \A i \in DOMAIN merged :
                InGroupedEdges(merged[i]) =>
                    LET votes == VotesOfTrip(merged[i], edge_index)
                    IN  /\ \A label \in OfficialLabels :
                                VoteCount(votes, label) = SumOfVotes(merged[i], label, Active)
                        /\ \A k \in DOMAIN votes : votes[k][1] \in OfficialLabels

\* C21 as stated: the votes that decide a target trip are the sum, over its
\* edges and the weekdays its service is active on, of the index's counter
\* under (origin name, destination name, HHMM, weekday); the index holds one
\* vote for the train label of each official trip edge on each weekday that
\* trip's service is active on.
C21_VotesAreTheSum == VotesAsSummed(Recorded)

\* C21: the same, a service with no weekday on record counting as active on
\* every weekday.
C21_VotesAreTheSumOrAllWeek == VotesAsSummed(RecordedOrAll)

\* a trip over two edges on one day gets two votes for each of two trains
C21_Witness ==
    /\ enrich_pc = "matched"
    /\ \E i \in DOMAIN merged :
        /\ merged[i].edges = <<E_PK, E_KP>>
        /\ merged[i].rail
        /\ VotesOfTrip(merged[i], edge_index) = <<<<"Os 100", 2>>, <<"Os 200", 2>>>>


\* C22: the edge index is built in full before the first lookup of a target
\* trip, and matching target trips leaves its keys and its counts as they
\* were: a lookup adds no key and changes no counter.
C22_IndexBuiltThenFrozen ==
    [][/\ (enrich_pc # "matched" /\ enrich_pc' = "matched" =>
                edge_index = BuildOfficialEdgeIndex(official))
       /\ (enrich_pc # "input" => edge_index' = edge_index)]_vars

\* trips were matched on an index that has one of the keys looked up and
\* lacks another
C22_Witness ==
    /\ enrich_pc = "matched"
    /\ LookedUp(merged) \cap DOMAIN edge_index # {}
    /\ LookedUp(merged) \ DOMAIN edge_index # {}
    /\ edge_index = BuildOfficialEdgeIndex(official)


\* the calendar instances of the registry, by their identity
Instances == {inst.id : inst \in Registered(calendars)}
ServiceIds(rows) == {rows[i].service_id : i \in DOMAIN rows}

\* C23: in a conversion run the calendars get their ids only after every
\* input file was processed and before any id is written; different
\* calendars of the registry get different ids; and in the finished feed the
\* service_id of every row of trips.txt is the id of a calendar with a row
\* in calendar.txt.
C23_IdsAfterFilesBeforeWrites ==
    /\ [][cal_ids' # cal_ids =>
            /\ file_no > Len(xml_files)
            /\ trips_txt = <<>> /\ calendar_txt = <<>>
            /\ trips_txt' = <<>> /\ calendar_txt' = <<>>]_vars
    /\ [](/\ (trips_txt # <<>> \/ calendar_txt # <<>> => DOMAIN cal_ids = Instances)
          /\ \A a, b \in DOMAIN cal_ids : a # b => cal_ids[a] # cal_ids[b]
          /\ (run_pc = "finished" =>
                /\ ServiceIds(trips_txt) \subseteq ServiceIds(calendar_txt)
                /\ ServiceIds(calendar_txt) = {cal_ids[a] : a \in Instances}
                /\ \A f \in DOMAIN trains : \E i \in DOMAIN trips_txt :
                        /\ trips_txt[i].trip_id = trains[f].id
                        /\ trips_txt[i].service_id = cal_ids[trains[f].calendar.id]))

\* a finished run with two trips on two calendars
C23_Witness ==
    /\ run_pc = "finished"
    /\ Len(trips_txt) = 2
    /\ trips_txt[1].service_id # trips_txt[2].service_id
    /\ Len(calendar_txt) = 2


\* the active dates of the variant in file f
DatesOfFile(f) ==
    {FirstDay + (i - 1) : i \in {j \in DOMAIN xml_files[f].cal_elem.bitmap :
                                    xml_files[f].cal_elem.bitmap[j] = "1"}}
\* the files the loop went through
Processed == {f \in DOMAIN xml_files : f < file_no}
Kept == DOMAIN trains
SameCore(f, g) == xml_files[f].core = xml_files[g].core

\* C27: the variants kept for one core id have pairwise disjoint active
\* dates; a variant of more than one stop is skipped exactly when its dates
\* intersect those of a variant of its core id kept before it; the dates
\* accepted for a core id are those of its kept variants; and routes.txt and
\* trips.txt have a row for the kept variants and for no other.
C27_KeptVariantsDisjoint ==
    /\ Kept \subseteq Processed
    /\ \A f, g \in Kept :
            f # g /\ SameCore(f, g) => DatesOfFile(f) \cap DatesOfFile(g) = {}
    /\ \A f \in Processed :
            f \in Kept <=>
                /\ xml_files[f].stops > 1
                /\ \A g \in Kept :
                        g < f /\ SameCore(f, g) => DatesOfFile(f) \cap DatesOfFile(g) = {}
    /\ \A f \in Kept : trains[f].calendar.dates = DatesOfFile(f)
    /\ \A c \in DOMAIN cals_for_core :
            cals_for_core[c] = UNION {DatesOfFile(f) : f \in {g \in Kept : xml_files[g].core = c}}
    /\ (run_pc \in {"routes", "numbered", "trips", "finished"} =>
            {routes_txt[i].route_id : i \in DOMAIN routes_txt}
                = {<<xml_files[f].core, f>> : f \in Kept})
    /\ (run_pc \in {"trips", "finished"} =>
            {trips_txt[i].trip_id : i \in DOMAIN trips_txt}
                = {<<xml_files[f].core, f>> : f \in Kept})

\* a finished run that skipped the second variant of a core id for the day it
\* shares with the first, and did not accept the second's other day
C27_Witness ==
    /\ run_pc = "finished"
    /\ Len(xml_files) = 2
    /\ SameCore(1, 2)
    /\ Kept = {1}
    /\ xml_files[2].stops > 1
    /\ DatesOfFile(2) \ DatesOfFile(1) # {}
    /\ cals_for_core[xml_files[1].core] = DatesOfFile(1)
    /\ Len(routes_txt) = 1
    /\ Len(trips_txt) = 1

-----------------------------------------------------------------------------
(* Properties of parallel load_calendar calls (SpecThreads)                *)

\* C24: when calendar constructions run in parallel on one registry, the
\* lookup and the insert are serialized: however the threads interleave, two
\* constructions of the same active dates return the same instance, and no
\* caller ends up holding another instance than the registered one.
C24_ParallelLoadsShare ==
    (\A t \in Threads : thread_pc[t] = "done") =>
        \A t, u \in Threads :
            /\ thread_ret[t][1] = shared_map[thread_ret[t][1].dates]
            /\ (thread_ret[t][1].dates = thread_ret[u][1].dates =>
                    thread_ret[t] = thread_ret[u])

-----------------------------------------------------------------------------
(* The shapes of a decision (SpecPool)                                     *)

Pool == {delay_records[i] : i \in DOMAIN delay_records}

\* the decision carries a record of the pool and that record's status
CarriesPoolRecord(d) ==
    /\ d.record # None
    /\ d.record[1] \in Pool
    /\ d.status = IF d.record[1].status = None
                  THEN "unknown" ELSE d.record[1].status[1]

\* C26: every decision of match_departure_to_delay_records is high by
\* train_number or medium by route_code, with a record of the pool and that
\* record's status ('unknown' if it has none), or it is none / none with no
\* record and status 'unknown'.
C26_ThreeShapes ==
    match_pc = "done" =>
        \/ /\ decision.confidence = "high"
           /\ decision.match_reason = "train_number"
           /\ CarriesPoolRecord(decision)
        \/ /\ decision.confidence = "medium"
           /\ decision.match_reason = "route_code"
           /\ CarriesPoolRecord(decision)
        \/ /\ decision.confidence = "none"
           /\ decision.match_reason = "none"
           /\ decision.record = None
           /\ decision.status = "unknown"

\* a match by route code on a record that has no status, in a pool of two
C26_Witness ==
    /\ match_pc = "done"
    /\ decision.confidence = "medium"
    /\ decision.record # None
    /\ decision.record[1].status = None
    /\ decision.status = "unknown"
    /\ Len(delay_records) = 2

-----------------------------------------------------------------------------
(* Properties of the times written to stop_times.txt (SpecStopTimes)       *)

\* the times of the train at hand that were handed to gtfs_time so far, in
\* the order of the calls: arrival and departure of each stop written
CallsMade == 1 .. (2 * Len(st_rows))
TimeGiven(k) == st_stops[(k + 1) \div 2][IF k % 2 = 1 THEN 1 ELSE 2]
TextWritten(k) ==
    IF k % 2 = 1 THEN st_rows[(k + 1) \div 2].arrival_time
    ELSE st_rows[(k + 1) \div 2].departure_time

\* the hour of a written time: the number before the first colon
HourWritten(text) ==
    IF text[2] = 58 THEN text[1] - 48 ELSE 10 * (text[1] - 48) + (text[2] - 48)
\* the minutes and seconds of a written time: the two numbers after it
RestWritten(text) ==
    LET p == IF text[2] = 58 THEN 2 ELSE 3
    IN  <<10 * (text[p + 1] - 48) + (text[p + 2] - 48),
          10 * (text[p + 4] - 48) + (text[p + 5] - 48)>>

\* a time up to the k-th is earlier in the day than the one before it
SecondOfDay(t) == 3600 * t.hour + 60 * t.minute + t.second
GoesDown(j) == SecondOfDay(TimeGiven(j)) < SecondOfDay(TimeGiven(j - 1))
DecreasedBy(k) == \E j \in 2 .. k : GoesDown(j)
Shifted(k) == HourWritten(TextWritten(k)) = TimeGiven(k).hour + 24

\* C28: gtfs_time writes the k-th time of a train with 24 added to its hour
\* exactly when a pair of consecutive times of that train, up to the k-th,
\* was strictly decreasing, and writes the hour as it is otherwise; the
\* offset stays on every later time of the train, is never 48, and the first
\* time of every train is written without it.
C28_MidnightOffset ==
    /\ \A k \in CallsMade :
        /\ HourWritten(TextWritten(k))
              = TimeGiven(k).hour + (IF DecreasedBy(k) THEN 24 ELSE 0)
        /\ RestWritten(TextWritten(k)) = <<TimeGiven(k).minute, TimeGiven(k).second>>
        /\ Shifted(k) <=> DecreasedBy(k)
        /\ \A j \in CallsMade : j < k /\ Shifted(j) => Shifted(k)
        /\ HourWritten(TextWritten(k)) < 48
    /\ (st_rows # <<>> => ~Shifted(1))
    /\ (st_rows = <<>> => time_state = ClearedState)
    /\ (st_rows # <<>> =>
            time_state.jumped_midnight = DecreasedBy(2 * Len(st_rows)))

\* the second train of a run: its times go down past midnight at the second
\* stop and down again at the third, which is written with 24 added once
C28_Witness ==
    /\ st_train = 2
    /\ Len(st_rows) = 3
    /\ ~Shifted(1) /\ ~Shifted(2)
    /\ Shifted(3)
    /\ TimeGiven(1) = TimeGiven(2)
    /\ GoesDown(5)
    /\ GoesDown(6)
    /\ HourWritten(TextWritten(6)) = 24

-----------------------------------------------------------------------------
(* The page's matcher against match_departure_to_delay_records (SpecPage)  *)

\* C29: on the same departure and the same delay records, the page's
\* matchDeparture (on the records normalizeDelayRecord made) and
\* match_departure_to_delay_records return the same status, confidence and
\* match_reason, a train_number of null included.
C29_PageMatchesAsPython ==
    page_pc = "matched" =>
        /\ page_match.status = decision.status
        /\ page_match.confidence = decision.confidence
        /\ page_match.match_reason = decision.match_reason

-----------------------------------------------------------------------------
(* Properties of the archive merge log (SpecMerge)                         *)

\* C30: the log returned by extract_and_merge_xml_archives, after a base
\* archive and any update archives, those that fail to open or break off
\* part-way included, satisfies final_xml_file_count + overrides_count =
\* base_xml_files_written + update_xml_files_written, and each override
\* records a file that a later archive wrote over an earlier archive's.
C30_LogAccountsForEveryWrite ==
    merge_pc = "returned" =>
        /\ merge_log["final_xml_file_count"] + merge_log["overrides_count"]
              = merge_log["base_xml_files_written"]
                    + merge_log["update_xml_files_written"]
        /\ \A i \in DOMAIN overrides :
                overrides[i].replaced_from # overrides[i].replaced_by

====
